---- MODULE Spec2Model ----
(***************************************************************************)
(* Model of the jobs-browse feed pipeline of wrkr-web:                     *)
(*   - the feed page loader   (src/app/(site)/jobs/page.tsx, fetchJobsPage) *)
(*   - the feed filter engine (src/app/(site)/jobs/page.tsx, visibleJobs)   *)
(*   - the geocoder           (src/types/userProfile.ts, geocodeZip)        *)
(*                                                                         *)
(* Job documents are identified by a positive integer; a larger integer    *)
(* is a later creationDate, so "orderBy creationDate desc" is descending   *)
(* integer order and a document snapshot used as a cursor is its integer.  *)
(***************************************************************************)
EXTENDS Integers, Sequences, FiniteSets, TLC

VARIABLES
    \* ---- the "jobs" collection of the document store
    coll,          \* set of document ids currently stored
    nextDoc,       \* id the next inserted document gets
    \* ---- JobsPage component state (useState / useRef)
    jobs,          \* loaded jobs, a sequence of document ids
    loading, refreshing, loadingMore,
    hasMore,
    error,         \* "" is null
    snack,         \* snack.msg
    lastDocRef,    \* 0 is null, else the id of the cursor document
    enableRadius,
    \* ---- control state of the asynchronous tasks
    mounted,       \* the component is mounted
    cancelled,     \* the flag captured by the initial-load effect
    effectRun,     \* the initial-load effect has started
    req,           \* task -> request in flight (or NoReq)
    \* ---- history variables used only to state properties
    order,         \* tasks with a request in flight, oldest request first
    overtaken,     \* tasks whose request was issued before one already applied
    exhausted,     \* a short page was applied and no reset was started since
    inserts,       \* number of documents inserted since the page was opened
    \* ---- the feed filter/sort engine's further inputs
    feedData,      \* contents of the documents studied by the engine, by id
    searchText, zipFilter,
    origin,        \* NoOrigin is null
    radiusMiles,
    sort,
    now,           \* the clock read by new Date()
    \* ---- the geocoder
    storage,       \* window.localStorage: trimmed ZIP -> item (NoItem if none)
    gcall,         \* the geocodeZip call in progress or just finished
    \* ---- the origin resolver (useBrowserLocation / useZipLocation)
    originSource,  \* "null", "geo" or "zip"
    originZip,     \* the "Your ZIP" field
    originBusy,
    acq,           \* strategy -> 0, or, while its await is pending, its rank by
                   \* time of invocation among the acquisitions in flight
    \* ---- history variables of the origin resolver
    lastOk,        \* the successful acquisition that was invoked last
    late,          \* strategies in flight invoked before one that has succeeded
    \* ---- the session and the "jobs" documents seen by the other screens
    user,          \* useAuth().user: 0 is null, else the uid
    jobDocs,       \* job id -> stored document (userId, tip, pay)
    route,         \* the screen that is mounted: "none", "details" or "myjobs"
    \* ---- JobDetailsPage and MyJobsInner component state
    details,       \* id, job, loading, err, busyDelete, snack and the pending getDoc
    myjobs,        \* jobs, loading, refreshing, error, snack and the pending getDocs
    pending,       \* deleteDoc calls in flight
    \* ---- history variable of the delete requests
    deletes,       \* the deleteDoc issued last: job id, requesting uid, owner
    \* ---- the platform's Math library
    ulp,           \* signed error of Math.sin on a non-zero result, in 1/Scale
    \* ---- the "users" documents and the post-job form (NewJobInner)
    profiles,      \* uid -> users/{uid} document (NoProfile if none)
    form,          \* the form's fields, profileStatus, submitting, formError, snack
    call,          \* the onSubmit call in flight
    posted,        \* history: the job document addDoc wrote last
    \* ---- the profile page's danger zone (ProfileInner, onDeleteAccount)
    account,       \* loading, deletePw, deleteBusy, deleteError, snack
    deletion,      \* the onDeleteAccount call in flight
    trail          \* history: the awaits of the last call that settled, in order

loaderVars == <<coll, nextDoc, jobs, loading, refreshing, loadingMore, hasMore,
                error, snack, lastDocRef, enableRadius, mounted, cancelled,
                effectRun, req, order, overtaken, exhausted, inserts>>

feedVars == <<feedData, searchText, zipFilter, origin, radiusMiles, sort, now>>

geoVars == <<storage, gcall>>

originVars == <<originSource, originZip, originBusy, acq, lastOk, late>>

pagesVars == <<user, jobDocs, route, details, myjobs, pending, deletes>>

mathVars == <<ulp>>

postVars == <<profiles, form, call, posted>>

accountVars == <<account, deletion, trail>>

vars == <<loaderVars, feedVars, geoVars, originVars, pagesVars, mathVars, postVars,
          accountVars>>

\* ------------------------------------------------------------------ bounds
PAGE_SIZE == 25
MaxPages == 2        \* initial collection sizes lie around 0..MaxPages pages
MaxInserts == 1      \* documents inserted upstream while the page is open

\* ----------------------------------------------------------------- helpers
Tasks == {"init", "refresh", "more"}
NoReq == [state |-> "none"]

Range(s) == {s[i] : i \in 1..Len(s)}

\* Sizes of the collection when the page is opened.
InitSizes ==
    {n \in 0..(MaxPages * PAGE_SIZE + 5) :
        \E k \in 0..MaxPages : n - k * PAGE_SIZE \in {-1, 0, 5}}

\* The documents of c in creationDate-descending order.
Descending(c, top) ==
    LET all == [i \in 1..top |-> top + 1 - i]
    IN  SelectSeq(all, LAMBDA d : d \in c)

Take(s, n) == IF Len(s) <= n THEN s ELSE SubSeq(s, 1, n)

\* getDocs(query(collection, orderBy(creationDate, desc), [startAfter(cursor)],
\* limit(PAGE_SIZE))) evaluated on collection c.
getDocs(c, top, cursor) ==
    LET after == IF cursor = 0 THEN c ELSE {d \in c : d < cursor}
    IN  Take(Descending(after, top), PAGE_SIZE)

MergeSorted(prev, items) ==
    LET all == Range(prev) \cup Range(items)
        top == IF all = {} THEN 0 ELSE CHOOSE m \in all : \A d \in all : d <= m
    IN  Descending(all, top)
\* The "load more" merge: items whose id is not among the ids of prev are pushed.
MergeNoDedup(prev, items) == prev \o items
Merge(prev, items) ==
    LET seen == Range(prev)
    IN  prev \o SelectSeq(items, LAMBDA it : it \notin seen)


\* -------------------------------------------------- values of job fields
\* A field of a document is a tagged value: k is what typeof / a null test
\* sees, v the payload. Strings are sequences of one-character strings; a time
\* is a number of day parts since an epoch; a coordinate is in thousandths of
\* a degree; money is in dollars.
Undef == [k |-> "undefined", v |-> 0]
Num(n) == [k |-> "number", v |-> n]
NoStr == [k |-> "undefined", v |-> <<>>]
Str(s) == [k |-> "string", v |-> s]
NoTs == [k |-> "null", v |-> 0]
Ts(t) == [k |-> "timestamp", v |-> t]
NoLoc == [k |-> "undefined", latitude |-> Undef, longitude |-> Undef,
          lat |-> Undef, lng |-> Undef]
GeoPoint(la, lo) == [k |-> "object", latitude |-> Num(la), longitude |-> Num(lo),
                     lat |-> Undef, lng |-> Undef]
LatLngObj(la, lo) == [k |-> "object", latitude |-> Undef, longitude |-> Undef,
                      lat |-> Num(la), lng |-> Num(lo)]

\* The numbers a document field can hold besides the finite ones:
\* Number.POSITIVE_INFINITY, its negation and NaN, each typeof "number".
Infinity == 1000000000
NaN == Infinity + 1
finite(n) == n \notin {Infinity, 0 - Infinity, NaN}
\* a <= b on numbers: false when either is NaN
leq(a, b) == a # NaN /\ b # NaN /\ a <= b
\* a - b on numbers that are finite, Infinity or NaN
minus(a, b) ==
    IF a = NaN \/ b = NaN THEN NaN
    ELSE IF a = Infinity /\ b = Infinity THEN NaN
    ELSE IF a = Infinity THEN Infinity
    ELSE IF b = Infinity THEN 0 - Infinity
    ELSE a - b

NoOrigin == [k |-> "null", lat |-> 0, lng |-> 0]
LatLng(la, lo) == [k |-> "latlng", lat |-> la, lng |-> lo]

PartsPerDay == 2     \* granularity of the clock: parts of a day
MaxNow == 2          \* the clock runs over 0..MaxNow
MaxFeedJobs == 2     \* number of loaded jobs the engine is studied on

\* ------------------------------------------------------- string helpers
IsSpace(c) == c = " "

RECURSIVE TrimLeft(_)
TrimLeft(s) == IF s # <<>> /\ IsSpace(Head(s)) THEN TrimLeft(Tail(s)) ELSE s

RECURSIVE TrimRight(_)
TrimRight(s) ==
    IF s # <<>> /\ IsSpace(s[Len(s)]) THEN TrimRight(SubSeq(s, 1, Len(s) - 1)) ELSE s

\* String.prototype.trim
Trim(s) == TrimRight(TrimLeft(s))

LowerChar(c) == IF c = "A" THEN "a" ELSE IF c = "B" THEN "b" ELSE c

\* String.prototype.toLowerCase
toLowerCase(s) == [i \in 1..Len(s) |-> LowerChar(s[i])]

\* String.prototype.includes
includes(hay, needle) ==
    \E i \in 0..(Len(hay) - Len(needle)) :
        \A j \in 1..Len(needle) : hay[i + j] = needle[j]

\* normalize = (s) => (typeof s === "string" ? s.trim() : "")
normalize(x) == IF x.k = "string" THEN Trim(x.v) ELSE <<>>

\* ------------------------------------------------- per-job computations
\* The document of the "jobs" collection with id d. The engine is studied on
\* the documents of feedData; every other document is a plain standing offer
\* without coordinates, created at time d.
PlainJob(d) ==
    [title |-> Str(<<"j">>), description |-> NoStr, zip |-> Str(<<"1">>),
     tip |-> Num(5), pay |-> Undef, standingOffer |-> TRUE, endDate |-> NoTs,
     creationDate |-> Ts(d), location |-> NoLoc, latitude |-> Undef,
     longitude |-> Undef, lat |-> Undef, lng |-> Undef]

JobData(d) == IF d \in DOMAIN feedData THEN feedData[d] ELSE PlainJob(d)

IsNumber(x) == x.k = "number"

tipOfFalsy(job) ==
    IF IsNumber(job.tip) /\ job.tip.v # 0 THEN job.tip.v
    ELSE IF IsNumber(job.pay) /\ job.pay.v # 0 THEN job.pay.v
    ELSE 0
\* tipOf: t ?? p ?? 0
tipOf(job) ==
    IF IsNumber(job.tip) THEN job.tip.v
    ELSE IF IsNumber(job.pay) THEN job.pay.v
    ELSE 0

\* tsToDate: a Date (here the time itself) or null (here -1)
NoDate == 0 - 1
tsToDate(ts) == IF ts.k = "timestamp" THEN ts.v ELSE NoDate

\* Date.prototype.setHours(0, 0, 0, 0)
StartOfDay(t) == t - (t % PartsPerDay)

isActiveByInstant(job, clock) ==
    IF job.standingOffer THEN TRUE
    ELSE LET d == tsToDate(job.endDate)
         IN  IF d = NoDate THEN TRUE ELSE d >= clock
isActive(job, clock) ==
    IF job.standingOffer THEN TRUE
    ELSE LET d == tsToDate(job.endDate)
         IN  IF d = NoDate THEN TRUE
             ELSE StartOfDay(d) >= StartOfDay(clock)

jobCoordsTopLevelFirst(job) ==
    IF IsNumber(job.lat) /\ IsNumber(job.lng)
    THEN LatLng(job.lat.v, job.lng.v)
    ELSE IF IsNumber(job.latitude) /\ IsNumber(job.longitude)
    THEN LatLng(job.latitude.v, job.longitude.v)
    ELSE IF job.location.k = "object" /\ IsNumber(job.location.lat)
           /\ IsNumber(job.location.lng)
    THEN LatLng(job.location.lat.v, job.location.lng.v)
    ELSE IF job.location.k = "object" /\ IsNumber(job.location.latitude)
           /\ IsNumber(job.location.longitude)
    THEN LatLng(job.location.latitude.v, job.location.longitude.v)
    ELSE NoOrigin
jobCoords(job) ==
    IF job.location.k = "object" /\ IsNumber(job.location.latitude)
           /\ IsNumber(job.location.longitude)
    THEN LatLng(job.location.latitude.v, job.location.longitude.v)
    ELSE IF job.location.k = "object" /\ IsNumber(job.location.lat)
           /\ IsNumber(job.location.lng)
    THEN LatLng(job.location.lat.v, job.location.lng.v)
    ELSE IF IsNumber(job.latitude) /\ IsNumber(job.longitude)
    THEN LatLng(job.latitude.v, job.longitude.v)
    ELSE IF IsNumber(job.lat) /\ IsNumber(job.lng)
    THEN LatLng(job.lat.v, job.lng.v)
    ELSE NoOrigin

\* Angles are thousandths of a degree and the values of sin, cos and sqrt are
\* in units of 1/Scale. Math.sin is tabulated every 30 degrees and interpolated
\* between; it is odd, exact at 0, and elsewhere off by the platform's error ulp
\* (the language leaves the precision of Math.sin to the implementation).
Scale == 1000
SinTable == <<0, 500, 866, 1000, 866, 500, 0, -500, -866, -1000, -866, -500, 0>>
Abs(x) == IF x < 0 THEN 0 - x ELSE x
sinPos(x) ==
    LET y == x % 360000
        k == y \div 30000
        lo == SinTable[k + 1]
        hi == SinTable[k + 2]
        v == lo + ((hi - lo) * (y % 30000)) \div 30000
    IN  IF v = 0 THEN 0 ELSE v + ulp
sin(x) == IF x < 0 THEN 0 - sinPos(0 - x) ELSE sinPos(x)
cos(x) == sin(90000 - Abs(x))
\* Math.sqrt of h, rounded down
sqrt(h) == CHOOSE r \in 0..(2 * Scale) : r * r <= h * Scale /\ h * Scale < (r + 1) * (r + 1)
\* Math.min(1, x)
min1Unclamped(x) == x
min1(x) == IF x > Scale THEN Scale ELSE x
\* Math.asin on [0, 1], interpolated between the inverses of the table's
\* entries; NaN outside its domain.
asin(x) ==
    IF x < 0 \/ x > Scale THEN NaN
    ELSE IF x <= 500 THEN (x * 30000) \div 500
    ELSE IF x <= 866 THEN 30000 + ((x - 500) * 30000) \div 366
    ELSE 60000 + ((x - 866) * 30000) \div 134
\* x / 2 of a whole number of thousandths, rounded towards zero
half(x) == IF x < 0 THEN 0 - ((0 - x) \div 2) ELSE x \div 2
\* R * c for an angle c: thousandths of a degree in, thousandths of a mile out.
\* MilliMilesPerDegree is R * pi / 180 * 1000 for R = 3958.7613.
MilliMilesPerDegree == 69093
toMiles(c) ==
    IF c = NaN THEN NaN
    ELSE (c \div 1000) * MilliMilesPerDegree + ((c % 1000) * MilliMilesPerDegree) \div 1000

\* The intermediate values of haversineMiles, named as in the source.
haversineH(a, b) ==
    LET dLat == b.lat - a.lat
        dLng == b.lng - a.lng
        s1 == sin(half(dLat))
        s2 == sin(half(dLng))
    IN  (s1 * s1) \div Scale
        + (((cos(a.lat) * cos(b.lat)) \div Scale) * ((s2 * s2) \div Scale)) \div Scale
asinArgument(a, b) == min1(sqrt(haversineH(a, b)))
haversineFormula(a, b) ==
    LET c == asin(asinArgument(a, b))
    IN  toMiles(IF c = NaN THEN NaN ELSE 2 * c)

\* haversineMiles. Math.sin of a non-finite angle is NaN, and so is all that is
\* computed from it. For two points of one meridian at most 180 degrees apart
\* the formula reduces to R * |dLat|, which is computed exactly; otherwise the
\* formula is evaluated step by step.
haversineMiles(a, b) ==
    IF ~(finite(a.lat) /\ finite(a.lng) /\ finite(b.lat) /\ finite(b.lng)) THEN NaN
    ELSE IF a.lng = b.lng /\ Abs(b.lat - a.lat) <= 180000
    THEN toMiles(Abs(b.lat - a.lat))
    ELSE haversineFormula(a, b)

NoMiles == 0 - 1     \* miles === null
\* computed: one entry { job, miles, hasCoords } per loaded job
computedOf(d, o) ==
    LET jc == jobCoords(JobData(d))
    IN  [job |-> d,
         miles |-> IF o.k # "null" /\ jc.k # "null" THEN haversineMiles(o, jc)
                   ELSE NoMiles,
         hasCoords |-> jc.k # "null"]

computed(js, o) == [i \in 1..Len(js) |-> computedOf(js[i], o)]

\* ------------------------------------------------------ the filter steps
\* The radius step of visibleJobs.
radiusStepFailOpen(list, enabled, o, radius) ==
    IF enabled /\ o.k # "null"
    THEN SelectSeq(list, LAMBDA x : x.miles # NoMiles /\ leq(x.miles, radius * 1000))
    ELSE list
radiusStepKeepsUnknown(list, enabled, o, radius) ==
    IF enabled
    THEN IF o.k = "null" THEN <<>>
         ELSE SelectSeq(list, LAMBDA x : x.miles = NoMiles \/ leq(x.miles, radius * 1000))
    ELSE list
radiusStep(list, enabled, o, radius) ==
    IF enabled
    THEN IF o.k = "null" THEN <<>>
         ELSE SelectSeq(list, LAMBDA x : x.miles # NoMiles /\ leq(x.miles, radius * 1000))
    ELSE list

\* visibleJobs before the sort: the activity, ZIP, text and radius filters.
filtered(js, text, zipF, enabled, o, radius, clock) ==
    LET s == toLowerCase(normalize(Str(text)))
        z == normalize(Str(zipF))
        l0 == SelectSeq(computed(js, o), LAMBDA x : isActive(JobData(x.job), clock))
        l1 == IF z # <<>>
              THEN SelectSeq(l0, LAMBDA x : normalize(JobData(x.job).zip) = z)
              ELSE l0
        l2 == IF s # <<>>
              THEN SelectSeq(l1, LAMBDA x :
                       \/ includes(toLowerCase(normalize(JobData(x.job).title)), s)
                       \/ includes(toLowerCase(normalize(JobData(x.job).description)), s))
              ELSE l1
    IN  radiusStep(l2, enabled, o, radius)

creationTime(d) ==
    LET t == tsToDate(JobData(d).creationDate) IN IF t = NoDate THEN 0 ELSE t

\* typeof x.miles === "number" ? x.miles : Number.POSITIVE_INFINITY
milesOrInfinity(x) == IF x.miles # NoMiles THEN x.miles ELSE Infinity

\* The comparator of each sort mode.
compare(mode, a, b) ==
    IF mode = "newest" THEN creationTime(b.job) - creationTime(a.job)
    ELSE IF mode = "tipHigh" THEN tipOf(JobData(b.job)) - tipOf(JobData(a.job))
    ELSE IF mode = "tipLow" THEN tipOf(JobData(a.job)) - tipOf(JobData(b.job))
    ELSE minus(milesOrInfinity(a), milesOrInfinity(b))

\* What Array.prototype.sort makes of the comparator's value: NaN counts as 0.
SortCompare(mode, a, b) ==
    LET v == compare(mode, a, b) IN IF v = NaN THEN 0 ELSE v

\* Array.prototype.sort with the comparator of mode: a stable sort; x is placed
\* before the first element that compares greater than it. (Where distances
\* are NaN the comparator can be inconsistent on three or more jobs, and the
\* order of those jobs is then the engine's choice; this is the order an
\* insertion sort gives.)
RECURSIVE InsertSortedUnstable(_, _, _)
InsertSortedUnstable(x, s, mode) ==
    IF s = <<>> THEN <<x>>
    ELSE IF SortCompare(mode, Head(s), x) >= 0 THEN <<x>> \o s
    ELSE <<Head(s)>> \o InsertSortedUnstable(x, Tail(s), mode)
RECURSIVE InsertSorted(_, _, _)
InsertSorted(x, s, mode) ==
    IF s = <<>> THEN <<x>>
    ELSE IF SortCompare(mode, Head(s), x) > 0 THEN <<x>> \o s
    ELSE <<Head(s)>> \o InsertSorted(x, Tail(s), mode)

RECURSIVE StableSort(_, _)
StableSort(s, mode) ==
    IF s = <<>> THEN <<>>
    ELSE InsertSorted(s[Len(s)], StableSort(SubSeq(s, 1, Len(s) - 1), mode), mode)

sorted(list, mode) == StableSort(list, mode)

\* visibleJobs, as a function of all it reads.
visibleJobsOf(js, text, zipF, enabled, o, radius, mode, clock) ==
    sorted(filtered(js, text, zipF, enabled, o, radius, clock), mode)

visibleJobs ==
    visibleJobsOf(jobs, searchText, zipFilter, enableRadius, origin, radiusMiles,
                  sort, now)

\* ------------------------------------------------- feed page loader
\* visibleJobs.length; the sort leaves the length of the filtered list alone.
visibleCount ==
    Len(filtered(jobs, searchText, zipFilter, enableRadius, origin, radiusMiles, now))

\* q = !isReset && lastDocRef.current ? query(..., startAfter(lastDocRef.current),
\* ...) : base -- the cursor the query starts after (0: from the beginning).
queryCursorNone(isReset, ref) == 0
queryCursor(isReset, ref) == IF ~isReset /\ ref # 0 THEN ref ELSE 0

\* The synchronous head of fetchJobsPage(mode), up to "await getDocs(q)", run by
\* task t. It captures the cursor the query is built from.
fetchStart(t, mode) ==
    LET isReset == mode = "reset"
        ref == IF isReset THEN 0 ELSE lastDocRef
    IN  /\ error' = ""
        /\ hasMore' = IF isReset THEN TRUE ELSE hasMore
        /\ lastDocRef' = ref
        /\ req' = [req EXCEPT ![t] =
                      [state |-> "sent", mode |-> mode,
                       cursor |-> queryCursor(isReset, ref), docs |-> <<>>,
                       moved |-> (hasMore' # hasMore \/ lastDocRef' # lastDocRef)]]
        /\ order' = Append(order, t)
        /\ exhausted' = IF isReset THEN FALSE ELSE exhausted

\* catch (e) { setError(e?.message ?? "Failed to load jobs.") }
catchErrorSwallowed(prev) == prev
catchError(prev) == "Failed to load jobs."

\* if (isReset) setJobs(items) else setJobs(prev => merged)
applyJobsAlwaysMerge(isReset, prev, items) == Merge(prev, items)
applyJobs(isReset, prev, items) == IF isReset THEN items ELSE Merge(prev, items)

\* The continuation of fetchJobsPage after the await, for the request of task t.
fetchApply(t) ==
    LET r == req[t]
        n == Len(r.docs)
        isReset == r.mode = "reset"
    IN  IF r.state = "failed"
        THEN /\ error' = catchError(error)
             /\ UNCHANGED <<jobs, hasMore, lastDocRef>>
        ELSE /\ lastDocRef' = IF n > 0 THEN r.docs[n] ELSE lastDocRef
             /\ hasMore' = (n = PAGE_SIZE)
             /\ jobs' = applyJobs(isReset, jobs, r.docs)
             /\ UNCHANGED error

\* Bookkeeping of the history variables when the response of task t is applied.
noteApplied(t) ==
    LET r == req[t]
        pos == CHOOSE i \in 1..Len(order) : order[i] = t
        older == {order[i] : i \in 1..(pos - 1)}
    IN  /\ order' = SelectSeq(order, LAMBDA x : x # t)
        /\ overtaken' = (overtaken \ {t}) \cup older
        /\ exhausted' = IF r.state = "failed" THEN exhausted
                        ELSE IF r.mode = "reset" THEN Len(r.docs) < PAGE_SIZE
                        ELSE exhausted \/ Len(r.docs) < PAGE_SIZE

\* useEffect(() => { setLoading(true); await fetchJobsPage("reset"); ... })
MountEffect ==
    /\ mounted /\ ~effectRun
    /\ effectRun' = TRUE
    /\ loading' = TRUE
    /\ fetchStart("init", "reset")
    /\ UNCHANGED <<coll, nextDoc, jobs, refreshing, loadingMore, snack,
                   enableRadius, mounted, cancelled, overtaken, inserts>>
    /\ UNCHANGED <<feedVars, geoVars, originVars, pagesVars, mathVars, postVars,
                   accountVars>>

\* The refresh button (disabled while refreshing): onRefresh up to its await.
onRefresh ==
    /\ mounted /\ ~refreshing
    /\ refreshing' = TRUE
    /\ fetchStart("refresh", "reset")
    /\ UNCHANGED <<coll, nextDoc, jobs, loading, loadingMore, snack,
                   enableRadius, mounted, cancelled, effectRun, overtaken,
                   inserts>>
    /\ UNCHANGED <<feedVars, geoVars, originVars, pagesVars, mathVars, postVars,
                   accountVars>>

\* The "Load more" button is rendered inside the list, which is rendered when
\* !loading && visibleJobs.length > 0, and only when hasMore; it is disabled
\* while loadingMore.
LoadMoreOffered == mounted /\ ~loading /\ visibleCount > 0 /\ hasMore /\ ~loadingMore

onLoadMore ==
    /\ LoadMoreOffered
    /\ loadingMore' = TRUE
    /\ fetchStart("more", "more")
    /\ UNCHANGED <<coll, nextDoc, jobs, loading, refreshing, snack,
                   enableRadius, mounted, cancelled, effectRun, overtaken,
                   inserts>>
    /\ UNCHANGED <<feedVars, geoVars, originVars, pagesVars, mathVars, postVars,
                   accountVars>>

\* The document store answers the request of task t from the collection as it
\* is at that moment.
StoreAnswers(t) ==
    /\ req[t].state = "sent"
    /\ req' = [req EXCEPT ![t].state = "answered",
                          ![t].docs = getDocs(coll, nextDoc - 1, req[t].cursor)]
    /\ UNCHANGED <<coll, nextDoc, jobs, loading, refreshing, loadingMore, hasMore,
                   error, snack, lastDocRef, enableRadius, mounted, cancelled,
                   effectRun, order, overtaken, exhausted, inserts>>
    /\ UNCHANGED <<feedVars, geoVars, originVars, pagesVars, mathVars, postVars,
                   accountVars>>

\* getDocs rejects (transport or store failure).
StoreFails(t) ==
    /\ req[t].state = "sent"
    /\ req' = [req EXCEPT ![t].state = "failed"]
    /\ UNCHANGED <<coll, nextDoc, jobs, loading, refreshing, loadingMore, hasMore,
                   error, snack, lastDocRef, enableRadius, mounted, cancelled,
                   effectRun, order, overtaken, exhausted, inserts>>
    /\ UNCHANGED <<feedVars, geoVars, originVars, pagesVars, mathVars, postVars,
                   accountVars>>

\* The response of task t reaches the page: the rest of fetchJobsPage runs, then
\* the rest of the caller (the effect's finally, onRefresh, the button handler).
Deliver(t) ==
    /\ mounted
    /\ req[t].state \in {"answered", "failed"}
    /\ fetchApply(t)
    /\ noteApplied(t)
    /\ req' = [req EXCEPT ![t] = NoReq]
    /\ loading' = IF t = "init" /\ ~cancelled THEN FALSE ELSE loading
    /\ refreshing' = IF t = "refresh" THEN FALSE ELSE refreshing
    /\ snack' = IF t = "refresh" THEN "Updated." ELSE snack
    /\ loadingMore' = IF t = "more" THEN FALSE ELSE loadingMore
    /\ UNCHANGED <<coll, nextDoc, enableRadius, mounted, cancelled, effectRun,
                   inserts>>
    /\ UNCHANGED <<feedVars, geoVars, originVars, pagesVars, mathVars, postVars,
                   accountVars>>

\* The "Radius ON/OFF" button: setEnableRadius(v => !v).
ToggleRadius ==
    /\ mounted
    /\ enableRadius' = ~enableRadius
    /\ UNCHANGED <<coll, nextDoc, jobs, loading, refreshing, loadingMore, hasMore,
                   error, snack, lastDocRef, mounted, cancelled, effectRun, req,
                   order, overtaken, exhausted, inserts>>
    /\ UNCHANGED <<feedVars, geoVars, originVars, pagesVars, mathVars, postVars,
                   accountVars>>

\* The effect's cleanup: the page is left. React discards the component's state;
\* the continuations of the requests still in flight find cancelled set and
\* their state setters do nothing, so nothing of this page is followed further.
Unmount ==
    /\ mounted /\ effectRun
    /\ mounted' = FALSE
    /\ cancelled' = TRUE
    /\ jobs' = <<>>
    /\ loading' = FALSE /\ refreshing' = FALSE /\ loadingMore' = FALSE
    /\ hasMore' = FALSE
    /\ error' = "" /\ snack' = ""
    /\ lastDocRef' = 0
    /\ enableRadius' = FALSE
    /\ req' = [t \in Tasks |-> NoReq]
    /\ order' = <<>> /\ overtaken' = {} /\ exhausted' = FALSE
    /\ UNCHANGED <<coll, nextDoc, effectRun, inserts>>
    /\ UNCHANGED <<feedVars, geoVars, originVars, pagesVars, mathVars, postVars,
                   accountVars>>

\* Another user posts a job: addDoc with creationDate = serverTimestamp().
InsertJob ==
    /\ inserts < MaxInserts
    /\ inserts' = inserts + 1
    /\ coll' = coll \cup {nextDoc}
    /\ nextDoc' = nextDoc + 1
    /\ UNCHANGED <<jobs, loading, refreshing, loadingMore, hasMore, error, snack,
                   lastDocRef, enableRadius, mounted, cancelled, effectRun, req,
                   order, overtaken, exhausted>>
    /\ UNCHANGED <<feedVars, geoVars, originVars, pagesVars, mathVars, postVars,
                   accountVars>>

\* ----------------------------------------------------------- the geocoder
\* localStorage holds, per trimmed ZIP z, the item under key "zipgeo:" + z.
NoItem == [k |-> "null", lat |-> 0, lng |-> 0]
\* JSON.stringify({ lat, lng }) and JSON.parse of such a text
stringify(c) == [k |-> "json", lat |-> c.lat, lng |-> c.lng]
parse(item) == LatLng(item.lat, item.lng)

\* The ZIP strings geocodeZip is called with, and the keys they trim to.
Zips == {<<>>, <<" ">>, <<"1">>, <<" ", "1">>, <<"1", " ">>, <<"2">>}
ZipKeys == {Trim(z) : z \in Zips} \ {<<>>}

\* The texts the service sends in a result's lat and lon fields, and Number()
\* of each: a decimal, a word ("abc"), "Infinity", the empty string, or no
\* field at all.
Decimal(n) == [t |-> "decimal", n |-> n]
NumberTexts ==
    {Decimal(40750), Decimal(0 - 73997), [t |-> "word", n |-> 0],
     [t |-> "Infinity", n |-> 0], [t |-> "empty", n |-> 0], [t |-> "missing", n |-> 0]}
ToNumber(s) ==
    IF s.t = "decimal" THEN Num(s.n)
    ELSE IF s.t = "empty" THEN Num(0)
    ELSE IF s.t = "Infinity" THEN [k |-> "Infinity", v |-> 0]
    ELSE [k |-> "NaN", v |-> 0]
isFinite(x) == x.k = "number"

\* What fetch and res.json() can produce.
Answer(kind, la, lo) == [kind |-> kind, lat |-> la, lon |-> lo]
NoAnswer == Answer("none", Decimal(0), Decimal(0))
ServiceAnswers ==
    {Answer(kind, Decimal(0), Decimal(0)) :
        kind \in {"reject", "notok", "badbody", "null", "empty"}}
    \cup {Answer("result", la, lo) : la \in NumberTexts, lo \in NumberTexts}

GeoCall(pc, zip, hit, fetched, ans, wrote, threw, result) ==
    [pc |-> pc, zip |-> zip, hit |-> hit, fetched |-> fetched, ans |-> ans,
     wrote |-> wrote, threw |-> threw, result |-> result]

GeoIdle ==
    /\ storage = [z \in ZipKeys |-> NoItem]
    /\ gcall = GeoCall("idle", <<>>, FALSE, FALSE, NoAnswer, "none", FALSE, NoOrigin)

\* window.localStorage.getItem(key)
getItemNever(store, z) == NoItem
getItem(store, z) == IF z \in DOMAIN store THEN store[z] ELSE NoItem

\* if (!z) return null -- and, in useZipLocation, if (!z) { ...; return }
isBlankNever(z) == FALSE
isBlank(z) == z = <<>>

\* if (!Number.isFinite(lat) || !Number.isFinite(lng)) return null
bothFiniteLatOnly(lat, lng) == isFinite(lat)
bothFinite(lat, lng) == isFinite(lat) /\ isFinite(lng)

\* try { localStorage.setItem(...) } catch {} ; return coords -- what the call
\* ends with when the write succeeded (ok) or raised.
afterWriteRethrows(ok, coords) ==
    IF ok THEN [threw |-> FALSE, result |-> coords]
    ELSE [threw |-> TRUE, result |-> NoOrigin]
afterWrite(ok, coords) == [threw |-> FALSE, result |-> coords]

\* geocodeZip(zip) up to its first await: the trim, the cache lookup and, on a
\* miss, the request to the service. hit records that the cache held an item
\* for the trimmed ZIP when the call looked.
geocodeZipEntered(zip) ==
    LET z == Trim(zip)
        had == z \in DOMAIN storage /\ storage[z].k # "null"
        cached == IF isBlank(z) THEN NoItem ELSE getItem(storage, z)
    IN  IF isBlank(z)
        THEN GeoCall("done", zip, FALSE, FALSE, NoAnswer, "none", FALSE, NoOrigin)
        ELSE IF cached.k # "null"
        THEN GeoCall("done", zip, had, FALSE, NoAnswer, "none", FALSE, parse(cached))
        ELSE GeoCall("fetching", zip, had, TRUE, NoAnswer, "none", FALSE, NoOrigin)

\* geocodeZip called by a caller other than the jobs page (the job form).
geocodeZipCall(zip) ==
    /\ gcall.pc \in {"idle", "done"}
    /\ acq["zip"] = 0
    /\ gcall' = geocodeZipEntered(zip)
    /\ UNCHANGED <<storage, loaderVars, feedVars, originVars, pagesVars, mathVars, postVars,
                   accountVars>>

\* The rest of geocodeZip once the service has answered with ans; ok tells
\* whether the storage write, if one is made, succeeds.
geocodeZipResume(ans, ok) ==
    LET z == Trim(gcall.zip)
        lat == ToNumber(ans.lat)
        lng == ToNumber(ans.lon)
        coords == LatLng(lat.v, lng.v)
        end(wrote, threw, result) ==
            GeoCall("done", gcall.zip, gcall.hit, gcall.fetched, ans, wrote, threw, result)
    IN  /\ gcall.pc = "fetching"
        /\ IF ans.kind \in {"reject", "badbody"}
           THEN gcall' = end("none", TRUE, NoOrigin) /\ UNCHANGED storage
           ELSE IF ans.kind \in {"notok", "null", "empty"}
           THEN gcall' = end("none", FALSE, NoOrigin) /\ UNCHANGED storage
           ELSE IF ~bothFinite(lat, lng)
           THEN gcall' = end("none", FALSE, NoOrigin) /\ UNCHANGED storage
           ELSE /\ storage' = IF ok THEN [storage EXCEPT ![z] = stringify(coords)]
                              ELSE storage
                /\ gcall' = end(IF ok THEN "ok" ELSE "failed",
                                afterWrite(ok, coords).threw,
                                afterWrite(ok, coords).result)
        /\ UNCHANGED <<loaderVars, feedVars, originVars, pagesVars, mathVars, postVars,
                   accountVars>>

\* ------------------------------------------------------ the origin resolver
Strategies == {"geo", "zip"}
NoAcquisition == [source |-> "null", coords |-> NoOrigin]

OriginDefaults ==
    /\ originSource = "null"
    /\ originZip = <<>>
    /\ originBusy = FALSE
    /\ acq = [k \in Strategies |-> 0]
    /\ lastOk = NoAcquisition
    /\ late = {}

\* disabled={originBusy} on "Use my location" and on "Use ZIP"
originButtonsNeverDisabled(busy) == FALSE
originButtonsDisabled(busy) == busy

\* What getCurrentPosition (or the missing navigator.geolocation) ends the
\* promise with: a position, or an error whose message is msg ("" stands for an
\* error without a message, e?.message undefined).
Position(la, lo) == [ok |-> TRUE, coords |-> LatLng(la, lo), msg |-> ""]
PositionError(msg) == [ok |-> FALSE, coords |-> NoOrigin, msg |-> msg]
GeolocationOutcomes ==
    {Position(40711, 0 - 74011), Position(40750, 0 - 73997),
     PositionError("User denied Geolocation"), PositionError("Position unavailable"),
     PositionError("Timeout expired"), PositionError("Geolocation not supported."),
     PositionError("")}

\* e?.message ?? fallback
messageOr(msg, fallback) == IF msg = "" THEN fallback ELSE msg

\* An acquisition of strategy k is invoked / has ended: the control state and
\* the history variables.
InFlight(k) == acq[k] > 0
invoked(k) ==
    /\ acq' = [acq EXCEPT ![k] = 1 + Cardinality({j \in Strategies : InFlight(j)})]
    /\ late' = late \ {k}
    /\ UNCHANGED lastOk
ended(k, succeeded, coords) ==
    /\ acq' = [j \in Strategies |->
                 IF j = k THEN 0
                 ELSE IF acq[j] > acq[k] THEN acq[j] - 1 ELSE acq[j]]
    /\ lastOk' = IF succeeded /\ k \notin late
                 THEN [source |-> k, coords |-> coords]
                 ELSE lastOk
    /\ late' = IF succeeded
               THEN (late \ {k}) \cup {j \in Strategies : InFlight(j) /\ acq[j] < acq[k]}
               ELSE late \ {k}

\* What an ended acquisition leaves in origin and originSource: setOrigin and
\* setOriginSource are reached on success only (the catch block, and the early
\* return on a null geocoder result, come before them).
applyAcquisitionAlways(succeeded, coords, source, o, src) ==
    [origin |-> coords, source |-> source]
applyAcquisition(succeeded, coords, source, o, src) ==
    IF succeeded THEN [origin |-> coords, source |-> source]
    ELSE [origin |-> o, source |-> src]

\* onChange of the "Your ZIP" field
setOriginZip(v) ==
    /\ mounted /\ v # originZip
    /\ originZip' = v
    /\ UNCHANGED <<originSource, originBusy, acq, lastOk, late>>
    /\ UNCHANGED <<loaderVars, feedVars, geoVars, pagesVars, mathVars, postVars,
                   accountVars>>

\* Everything of the page but the snackbar message.
loaderButSnack == <<coll, nextDoc, jobs, loading, refreshing, loadingMore, hasMore,
                    error, lastDocRef, enableRadius, mounted, cancelled, effectRun,
                    req, order, overtaken, exhausted, inserts>>
feedButOrigin == <<feedData, searchText, zipFilter, radiusMiles, sort, now>>

\* "Use my location" is pressed: useBrowserLocation up to its await. (One
\* acquisition per strategy is followed at a time.)
useBrowserLocation ==
    /\ mounted /\ ~originButtonsDisabled(originBusy)
    /\ ~InFlight("geo")
    /\ originBusy' = TRUE
    /\ invoked("geo")
    /\ UNCHANGED <<originSource, originZip, origin, snack>>
    /\ UNCHANGED <<loaderButSnack, feedButOrigin, geoVars, pagesVars, mathVars, postVars,
                   accountVars>>

\* The promise of useBrowserLocation settles with out; try / catch / finally.
useBrowserLocationResume(out) ==
    /\ InFlight("geo")
    /\ origin' = applyAcquisition(out.ok, out.coords, "geo", origin, originSource).origin
    /\ originSource' =
          applyAcquisition(out.ok, out.coords, "geo", origin, originSource).source
    /\ snack' = IF out.ok THEN "Using your location."
                ELSE messageOr(out.msg, "Could not get location.")
    /\ originBusy' = FALSE
    /\ ended("geo", out.ok, out.coords)
    /\ UNCHANGED originZip
    /\ UNCHANGED <<loaderButSnack, feedButOrigin, geoVars, pagesVars, mathVars, postVars,
                   accountVars>>

\* "Use ZIP" is pressed: useZipLocation up to its await, with the synchronous
\* head of the geocodeZip call it makes.
useZipLocation ==
    LET z == normalize(Str(originZip))
    IN  /\ mounted /\ ~originButtonsDisabled(originBusy)
        /\ ~InFlight("zip")
        /\ gcall.pc \in {"idle", "done"}
        /\ IF isBlank(z)
           THEN /\ snack' = "Enter a ZIP first."
                /\ UNCHANGED <<originBusy, acq, lastOk, late, gcall>>
           ELSE /\ originBusy' = TRUE
                /\ invoked("zip")
                /\ gcall' = geocodeZipEntered(z)
                /\ UNCHANGED snack
        /\ UNCHANGED <<originSource, originZip, origin, storage>>
        /\ UNCHANGED <<loaderButSnack, feedButOrigin, pagesVars, mathVars, postVars,
                   accountVars>>

\* geocodeZip has returned or thrown: the rest of useZipLocation. A request the
\* service rejected, or a body that is not JSON, raises an error with a message.
useZipLocationResume ==
    LET found == ~gcall.threw /\ gcall.result.k # "null"
        after == applyAcquisition(found, gcall.result, "zip", origin, originSource)
    IN  /\ InFlight("zip")
        /\ gcall.pc = "done"
        /\ origin' = after.origin
        /\ originSource' = after.source
        /\ snack' = IF gcall.threw THEN messageOr("Failed to fetch", "ZIP lookup failed.")
                    ELSE IF gcall.result.k = "null" THEN "Could not find that ZIP."
                    ELSE "Using ZIP location."
        /\ originBusy' = FALSE
        /\ ended("zip", found, gcall.result)
        /\ UNCHANGED originZip
        /\ UNCHANGED <<loaderButSnack, feedButOrigin, geoVars, pagesVars, mathVars, postVars,
                   accountVars>>

\* ------------------------------------------------------ the tip text of a job
\* Amounts are whole dollars. toLocaleString(style currency, USD) writes them as
\* "$", the digits and ".00", with a leading "-" below zero. A text is a
\* sequence of characters; <<>> is the empty text.
DigitChar(d) == <<"0", "1", "2", "3", "4", "5", "6", "7", "8", "9">>[d + 1]
RECURSIVE Digits(_)
Digits(n) == IF n < 10 THEN <<DigitChar(n)>>
             ELSE Digits(n \div 10) \o <<DigitChar(n % 10)>>

\* formatMoney: "" unless Number.isFinite(n)
formatMoney(n) ==
    IF ~finite(n) THEN <<>>
    ELSE (IF n < 0 THEN <<"-">> ELSE <<>>) \o <<"$">> \o Digits(Abs(n))
         \o <<".", "0", "0">>

\* ToBoolean of a number: 0 and NaN are falsy
truthy(n) == n # 0 /\ n # NaN

\* The feed: const tip = tipOf(job); const money = tip ? formatMoney(tip) : ""
feedTipText(job) == LET tip == tipOf(job) IN IF truthy(tip) THEN formatMoney(tip) ELSE <<>>
\* The my-jobs list computes the same expression.
myJobsTipText(job) == LET tip == tipOf(job) IN IF truthy(tip) THEN formatMoney(tip) ELSE <<>>
\* The details page: {formatMoney(tipOf(job))}
detailsTipText(job) == formatMoney(tipOf(job))

\* --------------------------------------- the job details and my-jobs screens
\* Two users share the device; the store holds MaxJobDocs job documents, each
\* owned by one of them. A document carries the fields these screens read.
Users == {1, 2}
MaxJobDocs == 2
MaxPending == 2
JobIds == 1..MaxJobDocs
NoJob == [userId |-> 0, tip |-> Undef, pay |-> Undef]
TipPay ==
    {<<Num(5), Undef>>, <<Undef, Undef>>, <<Num(NaN), Undef>>, <<Num(Infinity), Num(15)>>}
OwnedJobs == {[userId |-> u, tip |-> tp[1], pay |-> tp[2]] : u \in Users, tp \in TipPay}

\* snap.exists() and the owner the store records for a job id (0: no document)
exists(id) == id \in DOMAIN jobDocs
ownerOf(id) == IF exists(id) THEN jobDocs[id].userId ELSE 0
deleted(id) == [i \in DOMAIN jobDocs \ {id} |-> jobDocs[i]]

\* isOwner: if (!user || !job) return false; return job.userId === user.uid
isOwnerSignedIn(u, job) == u # 0 /\ job # NoJob
isOwner(u, job) == IF u = 0 \/ job = NoJob THEN FALSE ELSE job.userId = u

\* JobDetailsPage as useState initialises it, and the record kept for the
\* screen while it is not mounted.
DetailsConstructed(id) ==
    [id |-> id, job |-> NoJob, loading |-> TRUE, err |-> "", busyDelete |-> FALSE,
     snack |-> "", get |-> "none"]
DetailsClosed == [DetailsConstructed(0) EXCEPT !.loading = FALSE]

\* MyJobsInner as useState initialises it, with the getDocs calls in flight.
MyJobsConstructed ==
    [jobs |-> <<>>, loading |-> TRUE, refreshing |-> FALSE, error |-> "",
     snack |-> "", fetch |-> {}]
MyJobsClosed == [MyJobsConstructed EXCEPT !.loading = FALSE]

\* A deleteDoc call whose screen was left goes on at the store alone. At most
\* MaxPending calls are in flight.
NoDelete == [id |-> 0, by |-> 0, owner |-> 0]
orphaned(calls) == {[c EXCEPT !.page = "gone"] : c \in calls}
issue(id, page) ==
    /\ Cardinality(pending \cup {[id |-> id, page |-> page]}) <= MaxPending
    /\ pending' = pending \cup {[id |-> id, page |-> page]}
    /\ deletes' = [id |-> id, by |-> user, owner |-> ownerOf(id)]

\* The details page is opened on /jobs/[id] (0: no id): the component is
\* constructed and its effect runs up to "await getDoc(ref)".
OpenDetails(id) ==
    /\ route = "none"
    /\ route' = "details"
    /\ details' = IF id = 0
                  THEN [DetailsConstructed(id) EXCEPT !.err = "Missing job id.",
                                                      !.loading = FALSE]
                  ELSE [DetailsConstructed(id) EXCEPT !.get = "sent"]
    /\ UNCHANGED <<user, jobDocs, myjobs, pending, deletes>>
    /\ UNCHANGED <<loaderVars, feedVars, geoVars, originVars, mathVars, postVars,
                   accountVars>>

\* getDoc has settled (ok: it resolved): the rest of the effect.
getDocResume(ok) ==
    /\ route = "details"
    /\ details.get = "sent"
    /\ details' =
          IF ~ok
          THEN [details EXCEPT !.get = "none", !.err = "Failed to load job.",
                               !.loading = FALSE]
          ELSE IF ~exists(details.id)
          THEN [details EXCEPT !.get = "none", !.err = "Job not found.",
                               !.job = NoJob, !.loading = FALSE]
          ELSE [details EXCEPT !.get = "none", !.job = jobDocs[details.id],
                               !.loading = FALSE]
    /\ UNCHANGED <<user, jobDocs, route, myjobs, pending, deletes>>
    /\ UNCHANGED <<loaderVars, feedVars, geoVars, originVars, mathVars, postVars,
                   accountVars>>

\* The content block is rendered when !loading && !err && job.
DetailsShown == route = "details" /\ ~details.loading /\ details.err = "" /\ details.job # NoJob
\* The delete button: rendered when isOwner, disabled while busyDelete.
DeleteOffered == DetailsShown /\ isOwner(user, details.job) /\ ~details.busyDelete

\* onDelete up to "await deleteDoc"; ok is the answer to window.confirm.
onDelete(ok) ==
    /\ DeleteOffered
    /\ IF details.id = 0 \/ ~ok
       THEN UNCHANGED <<details, pending, deletes>>
       ELSE /\ details' = [details EXCEPT !.busyDelete = TRUE]
            /\ issue(details.id, "details")
    /\ UNCHANGED <<user, jobDocs, route, myjobs>>
    /\ UNCHANGED <<loaderVars, feedVars, geoVars, originVars, mathVars, postVars,
                   accountVars>>

\* The my-jobs page is opened (RequireAuth lets a signed-in user through): the
\* component is constructed and its effect runs up to "await getDocs(q)".
MyJobsOpened == [MyJobsConstructed EXCEPT !.fetch = {"effect"}]
OpenMyJobs ==
    /\ route = "none"
    /\ user # 0
    /\ route' = "myjobs"
    /\ myjobs' = MyJobsOpened
    /\ UNCHANGED <<user, jobDocs, details, pending, deletes>>
    /\ UNCHANGED <<loaderVars, feedVars, geoVars, originVars, mathVars, postVars,
                   accountVars>>

\* where("userId", "==", uid), orderBy("creationDate", "desc"): the documents
\* of uid, latest first, each with its id.
RECURSIVE queryByOwner(_, _)
queryByOwner(uid, top) ==
    IF top = 0 THEN <<>>
    ELSE (IF ownerOf(top) = uid THEN <<[id |-> top] @@ jobDocs[top]>> ELSE <<>>)
         \o queryByOwner(uid, top - 1)

\* The refresh button of my-jobs (disabled while refreshing): onRefresh up to
\* the await inside fetchJobs.
onRefreshMyJobs ==
    /\ route = "myjobs"
    /\ ~myjobs.loading
    /\ ~myjobs.refreshing
    /\ myjobs' = [myjobs EXCEPT !.refreshing = TRUE, !.error = "",
                                !.fetch = @ \cup {"refresh"}]
    /\ UNCHANGED <<user, jobDocs, route, details, pending, deletes>>
    /\ UNCHANGED <<loaderVars, feedVars, geoVars, originVars, mathVars, postVars,
                   accountVars>>

\* getDocs has settled for the call made by t (the effect or the refresh
\* button): the rest of fetchJobs, then the rest of its caller.
fetchJobsResume(t, ok) ==
    /\ route = "myjobs"
    /\ t \in myjobs.fetch
    /\ LET got == IF ok THEN [myjobs EXCEPT !.jobs = queryByOwner(user, MaxJobDocs)]
                  ELSE [myjobs EXCEPT !.error = "Failed to load your jobs."]
           rest == [got EXCEPT !.fetch = @ \ {t}]
       IN  myjobs' = IF t = "effect" THEN [rest EXCEPT !.loading = FALSE]
                     ELSE [rest EXCEPT !.refreshing = FALSE, !.snack = "Updated."]
    /\ UNCHANGED <<user, jobDocs, route, details, pending, deletes>>
    /\ UNCHANGED <<loaderVars, feedVars, geoVars, originVars, mathVars, postVars,
                   accountVars>>

\* The delete icon of a listed job: onDeleteJob up to "await deleteDoc".
onDeleteJob(i, ok) ==
    /\ route = "myjobs"
    /\ ~myjobs.loading
    /\ i \in 1..Len(myjobs.jobs)
    /\ IF ~ok THEN UNCHANGED <<pending, deletes>>
       ELSE issue(myjobs.jobs[i].id, "myjobs")
    /\ UNCHANGED <<user, jobDocs, route, details, myjobs>>
    /\ UNCHANGED <<loaderVars, feedVars, geoVars, originVars, mathVars, postVars,
                   accountVars>>

\* deleteDoc has settled for call c (ok: the store removed the document): the
\* rest of onDelete or onDeleteJob if its screen is still mounted.
\* router.push("/my-jobs") mounts the my-jobs page, which sends a signed-out
\* visitor on to the login page.
RECURSIVE without(_, _)
without(list, id) ==
    IF list = <<>> THEN <<>>
    ELSE (IF Head(list).id = id THEN <<>> ELSE <<Head(list)>>) \o without(Tail(list), id)

deleteDocResume(c, ok) ==
    /\ c \in pending
    /\ jobDocs' = IF ok THEN deleted(c.id) ELSE jobDocs
    /\ IF c.page = "details"
       THEN /\ IF ok
               THEN /\ route' = IF user # 0 THEN "myjobs" ELSE "none"
                    /\ details' = DetailsClosed
                    /\ myjobs' = IF user # 0 THEN MyJobsOpened ELSE myjobs
                    /\ pending' = orphaned(pending \ {c})
               ELSE /\ details' = [details EXCEPT !.snack = "Failed to delete job.",
                                                  !.busyDelete = FALSE]
                    /\ pending' = pending \ {c}
                    /\ UNCHANGED <<route, myjobs>>
       ELSE IF c.page = "myjobs"
       THEN /\ myjobs' = IF ok
                         THEN [myjobs EXCEPT !.jobs = without(@, c.id),
                                             !.snack = "Job deleted."]
                         ELSE [myjobs EXCEPT !.snack = "Failed to delete job."]
            /\ pending' = pending \ {c}
            /\ UNCHANGED <<route, details>>
       ELSE /\ pending' = pending \ {c}
            /\ UNCHANGED <<route, details, myjobs>>
    /\ UNCHANGED <<user, deletes>>
    /\ UNCHANGED <<loaderVars, feedVars, geoVars, originVars, mathVars, postVars,
                   accountVars>>

\* ------------------------------------------------------- the post-job form
\* The users/{uid} documents: every field is a string or absent. profiles maps
\* a uid to its document, NoProfile if there is none.
ProfileDoc(n, p, a, z) == [exists |-> TRUE, name |-> n, phone |-> p, address |-> a, zip |-> z]
NoProfile == [exists |-> FALSE, name |-> NoStr, phone |-> NoStr, address |-> NoStr, zip |-> NoStr]
CompleteProfile == ProfileDoc(Str(<<"n">>), Str(<<"5">>), Str(<<"B">>), Str(<<"1">>))
\* The document the profile page creates on a first visit.
FirstVisitProfile == ProfileDoc(Str(<<>>), Str(<<>>), Str(<<>>), Str(<<>>))
ProfileDocs ==
    {NoProfile, CompleteProfile, FirstVisitProfile,
     [CompleteProfile EXCEPT !.zip = Str(<<" ">>)],
     [CompleteProfile EXCEPT !.name = NoStr]}

\* isNonEmpty: typeof s === "string" && s.trim().length > 0
isNonEmpty(x) == normalize(x) # <<>>
\* p.address ?? ""
orEmpty(x) == IF x.k = "string" THEN x.v ELSE <<>>
\* user.email ?? "": the first user signed up with an e-mail address
emailOf(u) == IF u = 1 THEN <<"e">> ELSE <<>>

\* The texts typed into the Tip field, and Number() of each.
BlankText == [t |-> "blank", n |-> 0]
EmptyText == [t |-> "empty", n |-> 0]
TipTexts ==
    {EmptyText, BlankText, [t |-> "word", n |-> 0], [t |-> "Infinity", n |-> 0],
     Decimal(0), Decimal(5)}
tipValueOf(tipText) == IF tipText = BlankText THEN Num(0) ELSE ToNumber(tipText)
\* The number as a job document holds it.
stored(x) ==
    IF x.k = "number" THEN x
    ELSE IF x.k = "Infinity" THEN Num(Infinity) ELSE Num(NaN)

\* The End Date field (type="date"): NoEndDate is "", else the chosen day.
NoEndDate == 0 - 1
EndDates == {NoEndDate, 0, 1}
\* new Date(endDate + "T00:00:00")
midnightOf(day) == day * PartsPerDay

\* NewJobInner as useState initialises it; get is the pending getDoc of the
\* profile gate.
FormConstructed ==
    [profileStatus |-> "loading", profileAddress |-> <<>>, profileZip |-> <<>>,
     profilePhone |-> <<>>, title |-> <<>>, address |-> <<>>, zip |-> <<>>,
     contactEmail |-> <<>>, contactPhone |-> <<>>, tipText |-> EmptyText,
     standingOffer |-> FALSE, endDate |-> NoEndDate, submitting |-> FALSE,
     formError |-> "", snack |-> "", get |-> "none"]
FormClosed == FormConstructed

\* The submission in flight (one at a time): the values onSubmit captured, the
\* await it is suspended at, and, as history, the clock and the profile status
\* at the time of submission. mounted tells whether the form that made it is
\* still on screen.
NoCall == [stage |-> "none"]
NoPost == [id |-> 0]

\* The form is opened (RequireAuth lets a signed-in user through): the
\* component is constructed and its effects run up to "await getDoc(ref)".
OpenForm ==
    /\ route = "none"
    /\ user # 0
    /\ route' = "new"
    /\ form' = [FormConstructed EXCEPT !.contactEmail = emailOf(user), !.get = "sent"]
    /\ UNCHANGED <<profiles, call, posted>>
    /\ UNCHANGED <<user, jobDocs, details, myjobs, pending, deletes>>
    /\ UNCHANGED <<loaderVars, feedVars, geoVars, originVars, mathVars, accountVars>>

\* prev.trim().length ? prev : value
keepOr(prev, value) == IF Trim(prev) # <<>> THEN prev ELSE value

\* getDoc of the profile gate has settled: the rest of the effect, then the
\* autofill effect if the status became ok.
profileStatusOf(p) ==
    IF ~p.exists THEN "missing"
    ELSE IF isNonEmpty(p.name) /\ isNonEmpty(p.phone) /\ isNonEmpty(p.address)
            /\ isNonEmpty(p.zip)
    THEN "ok" ELSE "incomplete"
profileGateResume(ok) ==
    /\ route = "new"
    /\ form.get = "sent"
    /\ LET p == profiles[user]
       IN  form' =
             IF ~ok \/ ~p.exists
             THEN [form EXCEPT !.get = "none", !.profileStatus = "missing"]
             ELSE IF profileStatusOf(p) = "ok"
             THEN [form EXCEPT !.get = "none", !.profileStatus = "ok",
                               !.profileAddress = orEmpty(p.address),
                               !.profileZip = orEmpty(p.zip),
                               !.profilePhone = orEmpty(p.phone),
                               !.address = keepOr(@, orEmpty(p.address)),
                               !.zip = keepOr(@, orEmpty(p.zip)),
                               !.contactPhone = keepOr(@, orEmpty(p.phone))]
             ELSE [form EXCEPT !.get = "none", !.profileStatus = "incomplete",
                               !.profileAddress = orEmpty(p.address),
                               !.profileZip = orEmpty(p.zip),
                               !.profilePhone = orEmpty(p.phone)]
    /\ UNCHANGED <<profiles, call, posted>>
    /\ UNCHANGED <<user, jobDocs, route, details, myjobs, pending, deletes>>
    /\ UNCHANGED <<loaderVars, feedVars, geoVars, originVars, mathVars, accountVars>>

\* The form is rendered once the profile status is ok.
FormShown == route = "new" /\ form.profileStatus = "ok"

\* onChange of a field of the form, for the fields and the values studied
FormFields ==
    [title |-> {<<" ">>, <<" ", "A">>},
     zip |-> {<<" ">>, <<"1">>},
     contactPhone |-> {<<" ">>, <<"5">>},
     tipText |-> TipTexts,
     standingOffer |-> BOOLEAN,
     endDate |-> EndDates]
setField(f, v) ==
    /\ FormShown
    /\ form[f] # v
    /\ form' = [form EXCEPT ![f] = v]
    /\ UNCHANGED <<profiles, call, posted>>
    /\ UNCHANGED <<user, jobDocs, route, details, myjobs, pending, deletes>>
    /\ UNCHANGED <<loaderVars, feedVars, geoVars, originVars, mathVars, accountVars>>

\* validate: the error message, "" for null. clock is what new Date() reads.
validate(f, clock) ==
    IF f.profileStatus # "ok" THEN "Please complete your Profile before posting a job."
    ELSE IF Trim(f.title) = <<>> THEN "Title is required."
    ELSE IF Trim(f.address) = <<>> THEN "Address is required."
    ELSE IF Trim(f.zip) = <<>> THEN "ZIP is required."
    ELSE IF Trim(f.contactEmail) = <<>> /\ Trim(f.contactPhone) = <<>>
    THEN "Please provide at least one contact method: email or phone."
    ELSE IF f.tipText \in {EmptyText, BlankText} THEN "Tip is required."
    ELSE IF tipValueOf(f.tipText).k = "NaN" THEN "Tip must be a number."
    ELSE IF tipValueOf(f.tipText).k = "number" /\ tipValueOf(f.tipText).v <= 0
    THEN "Tip must be greater than 0."
    ELSE IF ~f.standingOffer /\ f.endDate = NoEndDate
    THEN "Choose an End Date or enable Standing Offer."
    ELSE IF ~f.standingOffer /\ midnightOf(f.endDate) < StartOfDay(clock)
    THEN "End Date cannot be in the past."
    ELSE ""

\* The document onSubmit builds from the values of the render it was called in.
jobDocOf(f, uid) ==
    [userId |-> uid, title |-> Trim(f.title), address |-> Trim(f.address),
     zip |-> Trim(f.zip), tip |-> stored(tipValueOf(f.tipText)), pay |-> Undef,
     standingOffer |-> f.standingOffer,
     endDate |-> IF f.standingOffer THEN NoTs ELSE Ts(midnightOf(f.endDate))]

\* The submit button (disabled while submitting): onSubmit up to
\* "await geocodeZip". At most MaxPosts jobs are posted.
MaxPosts == 1
onSubmit ==
    /\ FormShown
    /\ ~form.submitting
    /\ call = NoCall
    /\ Cardinality(DOMAIN jobDocs) < MaxPosts
    /\ LET err == validate(form, now)
       IN  IF err # ""
           THEN /\ form' = [form EXCEPT !.formError = err]
                /\ UNCHANGED call
           ELSE /\ form' = [form EXCEPT !.formError = "", !.submitting = TRUE]
                /\ call' = [stage |-> "geocodeZip", doc |-> jobDocOf(form, user),
                            submitted |-> now, status |-> form.profileStatus,
                            mounted |-> TRUE]
    /\ UNCHANGED <<profiles, posted>>
    /\ UNCHANGED <<user, jobDocs, route, details, myjobs, pending, deletes>>
    /\ UNCHANGED <<loaderVars, feedVars, geoVars, originVars, mathVars, accountVars>>

\* The rest of onSubmit after a rejected await: catch and finally.
submitFailed ==
    IF call.mounted
    THEN form' = [form EXCEPT !.snack = "Failed to post job.", !.submitting = FALSE]
    ELSE UNCHANGED form

\* geocodeZip has settled (out: coordinates, null, or it threw); on success
\* onSubmit goes on to "await addDoc".
geocodeZipSettled(out) ==
    /\ call.stage = "geocodeZip"
    /\ IF out = "throws"
       THEN /\ call' = NoCall
            /\ submitFailed
       ELSE /\ call' = [call EXCEPT !.stage = "addDoc"]
            /\ UNCHANGED form
    /\ UNCHANGED <<profiles, posted>>
    /\ UNCHANGED <<user, jobDocs, route, details, myjobs, pending, deletes>>
    /\ UNCHANGED <<loaderVars, feedVars, geoVars, originVars, mathVars, accountVars>>

\* addDoc has settled (ok: the store wrote the document, with creationDate =
\* serverTimestamp()): the rest of onSubmit. router.push(`/jobs/${docRef.id}`)
\* mounts the details page of the new job.
newId == Cardinality(DOMAIN jobDocs) + 1
addDocSettled(ok) ==
    /\ call.stage = "addDoc"
    /\ call' = NoCall
    /\ IF ok
       THEN /\ posted' = [id |-> newId, doc |-> call.doc, creationDate |-> now,
                          submitted |-> call.submitted, status |-> call.status]
            /\ jobDocs' = [i \in DOMAIN jobDocs \cup {newId} |->
                              IF i = newId
                              THEN [userId |-> call.doc.userId, tip |-> call.doc.tip,
                                    pay |-> call.doc.pay]
                              ELSE jobDocs[i]]
            /\ IF call.mounted
               THEN /\ route' = "details"
                    /\ form' = FormClosed
                    /\ details' = [DetailsConstructed(newId) EXCEPT !.get = "sent"]
               ELSE UNCHANGED <<route, form, details>>
       ELSE /\ submitFailed
            /\ UNCHANGED <<posted, jobDocs, route, details>>
    /\ UNCHANGED profiles
    /\ UNCHANGED <<user, myjobs, pending, deletes>>
    /\ UNCHANGED <<loaderVars, feedVars, geoVars, originVars, mathVars, accountVars>>

\* ------------------------------------------- the profile page: delete account
\* ProfileInner's state that the danger zone uses, with the pending getDoc of
\* the load effect.
AccountConstructed ==
    [loading |-> TRUE, deletePw |-> <<>>, deleteBusy |-> FALSE, deleteError |-> "",
     snack |-> "", get |-> "none"]
AccountClosed == [AccountConstructed EXCEPT !.loading = FALSE]

\* The onDeleteAccount call in flight (one at a time): the await it is suspended
\* at, the uid it works for, the documents deleteAllUserJobs found, and whether
\* the page that made it is still on screen.
NoDeletion == [step |-> "none", uid |-> 0, found |-> {}, mounted |-> FALSE]
\* A write batch is committed as soon as it holds BatchLimit deletes.
BatchLimit == 400
batchOf(found) ==
    IF Cardinality(found) <= BatchLimit THEN found
    ELSE CHOOSE b \in SUBSET found : Cardinality(b) = BatchLimit

\* The profile page is opened (RequireAuth lets a signed-in user through): the
\* component is constructed and its effect runs up to "await getDoc(ref)".
OpenProfile ==
    /\ route = "none"
    /\ user # 0
    /\ route' = "profile"
    /\ account' = [AccountConstructed EXCEPT !.get = "sent"]
    /\ UNCHANGED <<deletion, trail>>
    /\ UNCHANGED <<user, jobDocs, details, myjobs, pending, deletes>>
    /\ UNCHANGED <<loaderVars, feedVars, geoVars, originVars, mathVars, postVars>>

\* getDoc (and, for a first visit, setDoc) has settled: the rest of the effect.
profileLoadResume(ok) ==
    /\ route = "profile"
    /\ account.get = "sent"
    /\ profiles' = IF ok /\ ~profiles[user].exists
                   THEN [profiles EXCEPT ![user] = FirstVisitProfile]
                   ELSE profiles
    /\ account' = [account EXCEPT !.get = "none", !.loading = FALSE,
                                  !.snack = IF ok THEN @ ELSE "Failed to load profile."]
    /\ UNCHANGED <<form, call, posted>>
    /\ UNCHANGED <<deletion, trail>>
    /\ UNCHANGED <<user, jobDocs, route, details, myjobs, pending, deletes>>
    /\ UNCHANGED <<loaderVars, feedVars, geoVars, originVars, mathVars>>

\* onChange of the "Password to confirm" field
setDeletePw(v) ==
    /\ route = "profile"
    /\ ~account.loading
    /\ account.deletePw # v
    /\ account' = [account EXCEPT !.deletePw = v]
    /\ UNCHANGED <<deletion, trail>>
    /\ UNCHANGED <<user, jobDocs, route, details, myjobs, pending, deletes>>
    /\ UNCHANGED <<loaderVars, feedVars, geoVars, originVars, mathVars, postVars>>

\* The "Delete account" button (disabled={deleteBusy || !deletePw}):
\* onDeleteAccount up to "await reauthenticateWithCredential"; ok is the answer
\* to window.confirm.
onDeleteAccount(ok) ==
    /\ route = "profile"
    /\ ~account.loading
    /\ ~account.deleteBusy
    /\ account.deletePw # <<>>
    /\ deletion = NoDeletion
    /\ IF emailOf(user) = <<>>
       THEN /\ account' = [account EXCEPT !.deleteError = "No email found for this account.",
                                          !.deleteBusy = FALSE]
            /\ UNCHANGED <<deletion, trail>>
       ELSE IF ~ok
       THEN /\ account' = [account EXCEPT !.deleteError = "", !.deleteBusy = FALSE]
            /\ UNCHANGED <<deletion, trail>>
       ELSE /\ account' = [account EXCEPT !.deleteError = "", !.deleteBusy = TRUE]
            /\ deletion' = [step |-> "reauthenticate", uid |-> user, found |-> {},
                            mounted |-> TRUE]
            /\ trail' = <<>>
    /\ UNCHANGED <<user, jobDocs, details, myjobs, pending, deletes, route>>
    /\ UNCHANGED <<loaderVars, feedVars, geoVars, originVars, mathVars, postVars>>

\* The awaits of onDeleteAccount in the order of the source, deleteAllUserJobs
\* (getDocs, batch.commit) inlined.
DeletionSteps ==
    <<"reauthenticate", "getDocs", "commit", "updateDoc", "deleteDoc", "deleteUser">>
\* The step the call goes on to after step s has resolved, found being the
\* documents still to delete; "none" when it is done. deleteAllUserJobs returns
\* at once if the snapshot is empty, and commits while deletes are left.
nextStep(s, found) ==
    IF s = "reauthenticate" THEN "getDocs"
    ELSE IF s \in {"getDocs", "commit"}
    THEN (IF found = {} THEN "updateDoc" ELSE "commit")
    ELSE IF s = "updateDoc" THEN "deleteDoc"
    ELSE IF s = "deleteDoc" THEN "deleteUser"
    ELSE "none"
\* A rejection of updateDoc is swallowed by .catch(() => {}); every other one
\* reaches the catch block of onDeleteAccount.
swallowed(s) == s = "updateDoc"

\* The await of step deletion.step has settled (ok: it resolved): its effect at
\* the store, then the rest of onDeleteAccount up to the next await, or its
\* catch and finally blocks.
deletionResume(ok) ==
    LET s == deletion.step
        batch == batchOf(deletion.found)
        found == IF s = "getDocs" /\ ok
                 THEN {i \in DOMAIN jobDocs : jobDocs[i].userId = deletion.uid}
                 ELSE IF s = "commit" /\ ok THEN deletion.found \ batch
                 ELSE deletion.found
        goesOn == ok \/ swallowed(s)
        next == IF goesOn THEN nextStep(s, found) ELSE "none"
    IN  /\ s # "none"
        /\ trail' = Append(trail, [step |-> s, ok |-> ok])
        /\ jobDocs' = IF s = "commit" /\ ok
                      THEN [i \in DOMAIN jobDocs \ batch |-> jobDocs[i]]
                      ELSE jobDocs
        /\ profiles' = IF s = "deleteDoc" /\ ok
                       THEN [profiles EXCEPT ![deletion.uid] = NoProfile]
                       ELSE profiles
        /\ deletion' = IF next = "none" THEN NoDeletion
                       ELSE [deletion EXCEPT !.step = next, !.found = found]
        /\ IF s = "deleteUser" /\ ok
           THEN \* the auth state changes; RequireAuth redirects to the login page
                /\ user' = IF user = deletion.uid THEN 0 ELSE user
                /\ IF user = deletion.uid /\ route \in {"myjobs", "new", "profile"}
                   THEN /\ route' = "none"
                        /\ account' = AccountClosed
                        /\ form' = FormClosed
                        /\ myjobs' = MyJobsClosed
                        /\ call' = IF call = NoCall THEN call
                                   ELSE [call EXCEPT !.mounted = FALSE]
                        /\ pending' = orphaned(pending)
                   ELSE UNCHANGED <<route, account, form, myjobs, call, pending>>
           ELSE /\ account' =
                      IF ~deletion.mounted \/ next # "none" THEN account
                      ELSE [account EXCEPT
                              !.deleteError = IF goesOn THEN @
                                              ELSE "Failed to delete account.",
                              !.deleteBusy = FALSE]
                /\ UNCHANGED <<user, route, form, myjobs, call, pending>>
        /\ UNCHANGED <<posted, details, deletes>>
        /\ UNCHANGED <<loaderVars, feedVars, geoVars, originVars, mathVars>>

\* The mounted screen is left for another part of the site; the calls it made
\* go on without it.
unmountedCall == IF call = NoCall THEN call ELSE [call EXCEPT !.mounted = FALSE]
unmountedDeletion ==
    IF deletion = NoDeletion THEN deletion ELSE [deletion EXCEPT !.mounted = FALSE]
Leave ==
    /\ route # "none"
    /\ route' = "none"
    /\ details' = DetailsClosed
    /\ myjobs' = MyJobsClosed
    /\ form' = FormClosed
    /\ account' = AccountClosed
    /\ pending' = orphaned(pending)
    /\ call' = unmountedCall
    /\ deletion' = unmountedDeletion
    /\ UNCHANGED <<user, jobDocs, deletes, profiles, posted, trail>>
    /\ UNCHANGED <<loaderVars, feedVars, geoVars, originVars, mathVars>>

\* A user signs in on the login page.
SignIn(u) ==
    /\ user = 0
    /\ route = "none"
    /\ user' = u
    /\ UNCHANGED <<jobDocs, route, details, myjobs, pending, deletes>>
    /\ UNCHANGED <<loaderVars, feedVars, geoVars, originVars, mathVars, postVars,
                   accountVars>>

\* The user signs out; RequireAuth unmounts the page it guards (my-jobs, the
\* form, the profile page), while the details page stays and is rendered again
\* with user null.
SignOut ==
    /\ user # 0
    /\ user' = 0
    /\ IF route \in {"myjobs", "new", "profile"}
       THEN /\ route' = "none"
            /\ myjobs' = MyJobsClosed
            /\ form' = FormClosed
            /\ account' = AccountClosed
            /\ pending' = orphaned(pending)
            /\ call' = unmountedCall
            /\ deletion' = unmountedDeletion
       ELSE UNCHANGED <<route, myjobs, form, account, pending, call, deletion>>
    /\ UNCHANGED <<jobDocs, details, deletes, profiles, posted, trail>>
    /\ UNCHANGED <<loaderVars, feedVars, geoVars, originVars, mathVars>>

\* The form and the profile page while they are not mounted.
PostDefaults ==
    /\ form = FormClosed
    /\ call = NoCall
    /\ posted = NoPost
AccountDefaults ==
    /\ profiles = [u \in Users |-> NoProfile]
    /\ account = AccountClosed
    /\ deletion = NoDeletion
    /\ trail = <<>>

\* The other screens are not mounted while the feed page is studied.
PagesDefaults ==
    /\ user = 0
    /\ jobDocs = <<>>
    /\ route = "none"
    /\ details = DetailsClosed
    /\ myjobs = MyJobsClosed
    /\ pending = {}
    /\ deletes = NoDelete
    /\ PostDefaults
    /\ AccountDefaults

\* The filter controls as useState initialises them.
FeedDefaults ==
    /\ searchText = <<>>
    /\ zipFilter = <<>>
    /\ origin = NoOrigin
    /\ radiusMiles = 10
    /\ sort = "newest"
    /\ now = 0

\* The page as it is constructed, over a collection of n documents.
JobsPageOpened(n) ==
    /\ coll = 1..n /\ nextDoc = n + 1
    /\ jobs = <<>>
    /\ loading = TRUE
    /\ refreshing = FALSE
    /\ loadingMore = FALSE
    /\ hasMore = TRUE
    /\ error = ""
    /\ snack = ""
    /\ lastDocRef = 0
    /\ enableRadius = FALSE
    /\ mounted = TRUE
    /\ cancelled = FALSE
    /\ effectRun = FALSE
    /\ req = [t \in Tasks |-> NoReq]
    /\ order = <<>>
    /\ overtaken = {}
    /\ exhausted = FALSE
    /\ inserts = 0
    /\ FeedDefaults
    /\ feedData = <<>>
    /\ GeoIdle
    /\ OriginDefaults

PageOpened(n) == JobsPageOpened(n) /\ PagesDefaults /\ ulp = 0

LoaderInit == \E n \in InitSizes : PageOpened(n)

LoaderNext ==
    \/ MountEffect
    \/ onRefresh
    \/ onLoadMore
    \/ \E t \in Tasks : StoreAnswers(t)
    \/ \E t \in Tasks : StoreFails(t)
    \/ \E t \in Tasks : Deliver(t)
    \/ ToggleRadius
    \/ Unmount
    \/ InsertJob

Spec == LoaderInit /\ [][LoaderNext]_vars

\* ------------------------------------------------- the geocoder at work
GeoInit ==
    /\ PageOpened(0)

GeoNext ==
    \/ \E zip \in Zips : geocodeZipCall(zip)
    \/ \E ans \in ServiceAnswers, ok \in BOOLEAN : geocodeZipResume(ans, ok)

SpecGeo == GeoInit /\ [][GeoNext]_vars

\* -------------------------------------------- the origin resolver at work
\* The user types into the "Your ZIP" field and presses the two origin buttons;
\* the platform and the geocoding service answer; the job form geocodes ZIPs of
\* its own while no ZIP lookup of this page is pending.
OriginZips == {<<>>, <<" ">>, <<" ", "1">>, <<"2">>}
OriginAnswers ==
    {Answer(kind, Decimal(0), Decimal(0)) : kind \in {"reject", "notok", "empty"}}
    \cup {Answer("result", Decimal(40750), Decimal(0 - 73997)),
          Answer("result", Decimal(40750), [t |-> "word", n |-> 0])}

OriginInit == PageOpened(0)

OriginNext ==
    \/ \E v \in OriginZips : setOriginZip(v)
    \/ useBrowserLocation
    \/ \E out \in GeolocationOutcomes : useBrowserLocationResume(out)
    \/ useZipLocation
    \/ useZipLocationResume
    \/ \E zip \in OriginZips : geocodeZipCall(zip)
    \/ \E ans \in OriginAnswers, ok \in BOOLEAN : geocodeZipResume(ans, ok)

SpecOrigin == OriginInit /\ [][OriginNext]_vars

\* -------------------------- sequential paging over an unchanging collection
\* The page is opened and "Load more" is pressed while it is offered; every
\* request is answered; nothing else happens. One request is in flight at a time
\* because the button is hidden while loading and disabled while loadingMore.
SeqInit == \E n \in 0..(MaxPages * PAGE_SIZE + 5) : PageOpened(n)

SeqStep ==
    \/ MountEffect
    \/ onLoadMore
    \/ \E t \in Tasks : StoreAnswers(t)
    \/ \E t \in Tasks : Deliver(t)

SpecSeq == SeqInit /\ [][SeqStep]_vars /\ WF_vars(SeqStep)

\* ------------------------------------------------- the feed engine at work
\* The engine is studied on a page that has finished loading up to MaxFeedJobs
\* documents, whose contents are drawn from JobVariants, with an origin that
\* was acquired or not; the user then works the filter controls while the
\* clock runs.
Origin1 == LatLng(40750, 0 - 73997)
\* Latitudes 40779 and 40924 lie 2.0 and 12.0 miles north of Origin1.
NearShape == LatLngObj(40779, 0 - 73997)
NearGeoPoint == GeoPoint(40779, 0 - 73997)
FarGeoPoint == GeoPoint(40924, 0 - 73997)

BaseJob ==
    [title |-> Str(<<"A", "b">>), description |-> NoStr, zip |-> Str(<<"1">>),
     tip |-> Num(5), pay |-> Undef, standingOffer |-> FALSE, endDate |-> NoTs,
     creationDate |-> Ts(1), location |-> NearShape,
     latitude |-> Undef, longitude |-> Undef, lat |-> Undef, lng |-> Undef]

JobVariants ==
    { BaseJob,
      \* far away, GeoPoint shape, legacy pay only
      [BaseJob EXCEPT !.location = FarGeoPoint,
                      !.tip = Undef, !.pay = Num(15), !.creationDate = Ts(2)],
      \* no coordinates at all, tip 0 beside pay 15
      [BaseJob EXCEPT !.location = NoLoc, !.tip = Num(0), !.pay = Num(15)],
      \* standing offer whose endDate lies on the first day
      [BaseJob EXCEPT !.standingOffer = TRUE, !.endDate = Ts(0),
                      !.location = NearGeoPoint],
      \* ends at the start of the first day
      [BaseJob EXCEPT !.endDate = Ts(0), !.creationDate = Ts(0)],
      \* another ZIP (stored with a blank), matched by its description only
      [BaseJob EXCEPT !.zip = Str(<<" ", "2">>), !.title = Str(<<"b">>),
                      !.description = Str(<<"x", "A">>)],
      \* top-level lat/lng, no creationDate, no title
      [BaseJob EXCEPT !.location = NoLoc, !.lat = Num(40924), !.lng = Num(0 - 73997),
                      !.creationDate = NoTs, !.title = NoStr, !.tip = Undef],
      \* nested latitude NaN beside top-level lat/lng (far)
      [BaseJob EXCEPT !.location = GeoPoint(NaN, 0 - 73997),
                      !.lat = Num(40924), !.lng = Num(0 - 73997), !.tip = Num(7)] }

SearchTexts == {<<>>, <<" ", "a">>}
ZipFilters == {<<>>, <<"1", " ">>}
RadiusChoices == {5, 10, 25, 50, 100}
SortModes == {"newest", "tipHigh", "tipLow", "distance"}

FeedInit ==
    /\ \E k \in 1..MaxFeedJobs :
          /\ feedData \in [1..k -> JobVariants]
          /\ jobs = [i \in 1..k |-> i]
          /\ coll = 1..k /\ nextDoc = k + 1
          /\ lastDocRef = k
    /\ origin \in {NoOrigin, Origin1}
    /\ searchText = <<>>
    /\ zipFilter = <<>>
    /\ radiusMiles = 10
    /\ sort = "newest"
    /\ now = 0
    /\ enableRadius = FALSE
    /\ loading = FALSE /\ refreshing = FALSE /\ loadingMore = FALSE
    /\ hasMore = FALSE
    /\ error = "" /\ snack = ""
    /\ mounted = TRUE /\ cancelled = FALSE /\ effectRun = TRUE
    /\ req = [t \in Tasks |-> NoReq]
    /\ order = <<>> /\ overtaken = {} /\ exhausted = TRUE /\ inserts = 0
    /\ GeoIdle
    /\ originSource = (IF origin = NoOrigin THEN "null" ELSE "geo")
    /\ originZip = <<>>
    /\ originBusy = FALSE
    /\ acq = [k \in Strategies |-> 0]
    /\ lastOk = [source |-> originSource, coords |-> origin]
    /\ late = {}
    /\ PagesDefaults
    /\ ulp = 0

\* onChange of the Search field
setSearchText(v) ==
    /\ mounted /\ v # searchText
    /\ searchText' = v
    /\ UNCHANGED <<loaderVars, feedData, zipFilter, origin, radiusMiles, sort, now,
                   geoVars, originVars, pagesVars, mathVars, postVars,
                   accountVars>>

\* onChange of the ZIP filter field
setZipFilter(v) ==
    /\ mounted /\ v # zipFilter
    /\ zipFilter' = v
    /\ UNCHANGED <<loaderVars, feedData, searchText, origin, radiusMiles, sort, now,
                   geoVars, originVars, pagesVars, mathVars, postVars,
                   accountVars>>

\* onChange of the Radius select
setRadiusMiles(v) ==
    /\ mounted /\ v # radiusMiles
    /\ radiusMiles' = v
    /\ UNCHANGED <<loaderVars, feedData, searchText, zipFilter, origin, sort, now,
                   geoVars, originVars, pagesVars, mathVars, postVars,
                   accountVars>>

\* onChange of the Sort select
setSort(v) ==
    /\ mounted /\ v # sort
    /\ sort' = v
    /\ UNCHANGED <<loaderVars, feedData, searchText, zipFilter, origin, radiusMiles,
                   now, geoVars, originVars, pagesVars, mathVars, postVars,
                   accountVars>>

\* Time passes.
Tick ==
    /\ now < MaxNow
    /\ now' = now + 1
    /\ UNCHANGED <<loaderVars, feedData, searchText, zipFilter, origin, radiusMiles,
                   sort, geoVars, originVars, pagesVars, mathVars, postVars,
                   accountVars>>

FeedNext ==
    \/ \E v \in SearchTexts : setSearchText(v)
    \/ \E v \in ZipFilters : setZipFilter(v)
    \/ \E v \in RadiusChoices : setRadiusMiles(v)
    \/ \E v \in SortModes : setSort(v)
    \/ ToggleRadius
    \/ Tick

SpecFeed == FeedInit /\ [][FeedNext]_vars

\* ------------------------------------------ the coordinate extractor at work
\* jobCoords is studied on one loaded document whose eight coordinate fields
\* each are absent, a finite number proper to the shape, or a non-finite number
\* (NaN in a latitude, Infinity in a longitude); the location object may be
\* absent altogether.
LatValues(i) == {Undef, Num(40000 + i), Num(NaN)}
LngValues(i) == {Undef, Num(0 - 74000 - i), Num(Infinity)}
LocationShapes ==
    {NoLoc} \cup
    {[k |-> "object", latitude |-> a, longitude |-> b, lat |-> c, lng |-> e] :
        a \in LatValues(1), b \in LngValues(1), c \in LatValues(2), e \in LngValues(2)}
CoordRecords ==
    {[BaseJob EXCEPT !.location = l, !.latitude = a, !.longitude = b,
                     !.lat = c, !.lng = e] :
        l \in LocationShapes,
        a \in LatValues(3), b \in LngValues(3), c \in LatValues(4), e \in LngValues(4)}

\* The errors of Math.sin that are studied.
MathErrors == {0 - 1, 0, 1}

CoordInit ==
    /\ feedData \in [1..1 -> CoordRecords]
    /\ jobs = <<1>>
    /\ coll = {1} /\ nextDoc = 2
    /\ lastDocRef = 1
    /\ origin = Origin1
    /\ searchText = <<>>
    /\ zipFilter = <<>>
    /\ radiusMiles = 10
    /\ sort = "newest"
    /\ now = 0
    /\ enableRadius = FALSE
    /\ loading = FALSE /\ refreshing = FALSE /\ loadingMore = FALSE
    /\ hasMore = FALSE
    /\ error = "" /\ snack = ""
    /\ mounted = TRUE /\ cancelled = FALSE /\ effectRun = TRUE
    /\ req = [t \in Tasks |-> NoReq]
    /\ order = <<>> /\ overtaken = {} /\ exhausted = TRUE /\ inserts = 0
    /\ GeoIdle
    /\ originSource = "geo"
    /\ originZip = <<>>
    /\ originBusy = FALSE
    /\ acq = [k \in Strategies |-> 0]
    /\ lastOk = [source |-> originSource, coords |-> origin]
    /\ late = {}
    /\ PagesDefaults
    /\ ulp \in MathErrors

CoordNext ==
    \/ \E v \in SortModes : setSort(v)
    \/ ToggleRadius

SpecCoords == CoordInit /\ [][CoordNext]_vars


\* ------------------------------------------ the distance calculator at work
\* haversineMiles is studied between an origin and the coordinates of one
\* loaded job, both drawn from a grid of points between the 60th parallels and
\* all around the globe, under each error of Math.sin. The grid holds the same
\* point twice, points of one meridian, and antipodal points.
GridLats == {0 - 60000, 0, 30000, 60000}
GridLngs == {0 - 120000, 0 - 60000, 0, 60000, 120000, 180000}
GridPoints == {LatLng(la, lo) : la \in GridLats, lo \in GridLngs}

DistInit ==
    /\ origin \in GridPoints
    /\ \E p \in GridPoints :
          feedData = <<[BaseJob EXCEPT !.location = GeoPoint(p.lat, p.lng)]>>
    /\ ulp \in MathErrors
    /\ jobs = <<1>>
    /\ coll = {1} /\ nextDoc = 2
    /\ lastDocRef = 1
    /\ searchText = <<>>
    /\ zipFilter = <<>>
    /\ radiusMiles = 10
    /\ sort = "newest"
    /\ now = 0
    /\ enableRadius = FALSE
    /\ loading = FALSE /\ refreshing = FALSE /\ loadingMore = FALSE
    /\ hasMore = FALSE
    /\ error = "" /\ snack = ""
    /\ mounted = TRUE /\ cancelled = FALSE /\ effectRun = TRUE
    /\ req = [t \in Tasks |-> NoReq]
    /\ order = <<>> /\ overtaken = {} /\ exhausted = TRUE /\ inserts = 0
    /\ GeoIdle
    /\ originSource = "geo"
    /\ originZip = <<>>
    /\ originBusy = FALSE
    /\ acq = [k \in Strategies |-> 0]
    /\ lastOk = [source |-> originSource, coords |-> origin]
    /\ late = {}
    /\ PagesDefaults

DistNext ==
    \/ \E v \in SortModes : setSort(v)
    \/ ToggleRadius

SpecDist == DistInit /\ [][DistNext]_vars


\* ------------------------------------ the details and my-jobs screens at work
\* The two users sign in and out, open the details page of a job or their
\* my-jobs list, and press the delete controls they are offered; the store
\* answers or fails.
PagesInit ==
    /\ JobsPageOpened(0)
    /\ user = 0
    /\ jobDocs \in {f \in [JobIds -> OwnedJobs] :
                       \A i \in JobIds \ {1} : f[i].tip = Num(5)}
    /\ route = "none"
    /\ details = DetailsClosed
    /\ myjobs = MyJobsClosed
    /\ pending = {}
    /\ deletes = NoDelete
    /\ PostDefaults
    /\ AccountDefaults
    /\ ulp = 0

PagesNext ==
    \/ \E u \in Users : SignIn(u)
    \/ SignOut
    \/ \E id \in 0..(MaxJobDocs + 1) : OpenDetails(id)
    \/ \E ok \in BOOLEAN : getDocResume(ok)
    \/ \E ok \in BOOLEAN : onDelete(ok)
    \/ OpenMyJobs
    \/ onRefreshMyJobs
    \/ \E t \in {"effect", "refresh"}, ok \in BOOLEAN : fetchJobsResume(t, ok)
    \/ \E i \in JobIds, ok \in BOOLEAN : onDeleteJob(i, ok)
    \/ \E c \in pending, ok \in BOOLEAN : deleteDocResume(c, ok)
    \/ Leave

SpecPages == PagesInit /\ [][PagesNext]_vars

\* ------------------------------------------------- the post-job form at work
\* A user whose profile is complete, incomplete or missing signs in, opens the
\* form, fills it in and submits it while the clock runs; the store and the
\* geocoder answer or fail.
PostInit ==
    /\ JobsPageOpened(0)
    /\ user = 0
    /\ jobDocs = <<>>
    /\ route = "none"
    /\ details = DetailsClosed
    /\ myjobs = MyJobsClosed
    /\ pending = {}
    /\ deletes = NoDelete
    /\ profiles \in {f \in [Users -> ProfileDocs] : f[2] = CompleteProfile}
    /\ PostDefaults
    /\ account = AccountClosed
    /\ deletion = NoDeletion
    /\ trail = <<>>
    /\ ulp = 0

PostNext ==
    \/ \E u \in Users : SignIn(u)
    \/ SignOut
    \/ OpenForm
    \/ \E ok \in BOOLEAN : profileGateResume(ok)
    \/ \E f \in DOMAIN FormFields : \E v \in FormFields[f] : setField(f, v)
    \/ onSubmit
    \/ \E out \in {"coords", "null", "throws"} : geocodeZipSettled(out)
    \/ \E ok \in BOOLEAN : addDocSettled(ok)
    \/ Tick
    \/ Leave

SpecPost == PostInit /\ [][PostNext]_vars

\* ------------------------------------------------ account deletion at work
\* A user signs in, opens the profile page, types a password and presses
\* "Delete account"; every await of the call resolves or rejects.
AccountInit ==
    /\ JobsPageOpened(0)
    /\ user = 0
    /\ jobDocs \in {f \in [JobIds -> OwnedJobs] : \A i \in JobIds : f[i].tip = Num(5)}
    /\ route = "none"
    /\ details = DetailsClosed
    /\ myjobs = MyJobsClosed
    /\ pending = {}
    /\ deletes = NoDelete
    /\ PostDefaults
    /\ profiles \in [Users -> {NoProfile, CompleteProfile}]
    /\ account = AccountClosed
    /\ deletion = NoDeletion
    /\ trail = <<>>
    /\ ulp = 0

AccountNext ==
    \/ \E u \in Users : SignIn(u)
    \/ SignOut
    \/ OpenProfile
    \/ \E ok \in BOOLEAN : profileLoadResume(ok)
    \/ \E v \in {<<>>, <<"p">>} : setDeletePw(v)
    \/ \E ok \in BOOLEAN : onDeleteAccount(ok)
    \/ \E ok \in BOOLEAN : deletionResume(ok)
    \/ Leave

SpecAccount == AccountInit /\ [][AccountNext]_vars

\* ------------------------------------------------- properties: the loader
\* The response of task t is applied in this step.
DeliveredNow(t) ==
    /\ mounted'
    /\ req[t].state \in {"answered", "failed"} /\ req'[t].state = "none"
\* ... and it is a page of documents.
AppliedPage(t) == mounted' /\ req[t].state = "answered" /\ req'[t].state = "none"

Idle == effectRun /\ order = <<>>

\* The request of task t fails in this step: its catch block and the rest of its
\* caller run.
FailedNow(t) == mounted' /\ req[t].state = "failed" /\ req'[t].state = "none"
\* The busy flag of task t.
busyFlag(t) ==
    IF t = "init" THEN loading ELSE IF t = "refresh" THEN refreshing ELSE loadingMore

\* C24: the step in which a page fetch fails shows an error message, clears
\* the busy flag of its caller and issues no request; a request is issued only
\* by the page's opening, the refresh button and the load-more button; and
\* whenever no request is in flight none of loading, refreshing, loadingMore
\* is set, and the refresh action is enabled whenever refreshing is not set.
C24_FailureShownNoRetry ==
    /\ [][\A t \in Tasks :
             /\ FailedNow(t) => /\ error' # ""
                                /\ ~busyFlag(t)'
                                /\ \A u \in Tasks : req'[u].state # "sent"
                                                        \/ req[u].state = "sent"
             /\ (req[t].state = "none" /\ req'[t].state = "sent")
                   => (MountEffect \/ onRefresh \/ onLoadMore)]_vars
    /\ [](mounted /\ Idle => ~loading /\ ~refreshing /\ ~loadingMore)
    /\ [](mounted /\ ~refreshing => ENABLED onRefresh)

\* C24 witness: after a page was loaded a fetch failed; the error is shown,
\* nothing is in flight and no busy flag is set.
C24_FailedAfterLoad ==
    /\ mounted /\ Idle
    /\ error # "" /\ jobs # <<>>
    /\ ~loading /\ ~refreshing /\ ~loadingMore

\* s is a gap-free prefix of the collection c in creationDate-descending order.
IsPrefixOf(s, c, top) ==
    LET all == Descending(c, top)
    IN  Len(s) <= Len(all) /\ s = SubSeq(all, 1, Len(s))

\* C26: over an unchanging collection, whenever no request is in flight the
\* loaded list is a gap-free prefix of the collection in creationDate-descending
\* order, and once hasMore is false it is the whole collection.
C26_LoadedIsGapFreePrefix ==
    (mounted /\ Idle /\ inserts = 0)
        => /\ IsPrefixOf(jobs, coll, nextDoc - 1)
           /\ ~hasMore => Len(jobs) = Cardinality(coll)

\* C27: whenever the feed is loaded, holds jobs, hasMore is true and no
\* load-more is in flight, the load-more action is offered, whatever the
\* filters and the sort mode are.
C27_LoadMoreReachable ==
    (mounted /\ ~loading /\ jobs # <<>> /\ hasMore /\ ~loadingMore) => LoadMoreOffered

\* C28: a page fetch that fails has changed neither hasMore nor the cursor
\* before its await, and the step in which it fails leaves the loaded jobs, the
\* cursor and hasMore unchanged.
C28_FailedFetchKeepsPagination ==
    [][\A t \in Tasks :
          FailedNow(t) => /\ UNCHANGED <<jobs, lastDocRef, hasMore>>
                          /\ ~req[t].moved]_vars

\* C1: the loaded jobs list never contains two entries with the same id,
\* whatever resets and load-mores were run and whatever their pages overlapped.
C1_NoDuplicateIds == Cardinality(Range(jobs)) = Len(jobs)

\* C1 witness: a load-more page that overlapped the loaded list (it repeated
\* all but one record and carried a record inserted upstream) has been merged.
C1_OverlapMerged ==
    /\ mounted /\ Idle
    /\ Len(jobs) = PAGE_SIZE + 1
    /\ jobs[Len(jobs)] > jobs[1]

\* C2: the response of a request that was issued before a request whose result
\* has already been applied changes neither the loaded jobs, nor the cursor,
\* nor hasMore.
C2_StaleResponseNotApplied ==
    [][\A t \in Tasks :
          (DeliveredNow(t) /\ t \in overtaken)
              => UNCHANGED <<jobs, lastDocRef, hasMore>>]_vars

\* C4: after a page is applied hasMore tells whether the page was full, and
\* the cursor is then its last record; and from the moment a short page was
\* applied until a reset is started, hasMore stays false, so that no load-more
\* can be issued.
C4_ShortPageEndsPaging ==
    /\ [][\A t \in Tasks :
             (AppliedPage(t) /\ mounted)
                 => /\ hasMore' = (Len(req[t].docs) = PAGE_SIZE)
                    /\ hasMore' => lastDocRef' = req[t].docs[PAGE_SIZE]]_vars
    /\ [](exhausted /\ mounted => ~hasMore /\ ~LoadMoreOffered)

\* s is the first page of collection c: its newest records, newest first.
IsPageOne(s, c) ==
    /\ Len(s) = IF Cardinality(c) < PAGE_SIZE THEN Cardinality(c) ELSE PAGE_SIZE
    /\ Range(s) \subseteq c
    /\ \A i \in 1..(Len(s) - 1) : s[i] > s[i + 1]
    /\ \A d \in c \ Range(s) : \A e \in Range(s) : d < e

\* C5: over an unchanging collection of N records, opening the page and then
\* pressing "Load more" while it is offered ends with no request in flight,
\* hasMore false and each of the N records loaded exactly once, newest first;
\* for N = 30 the first load leaves 25 records with hasMore true and the first
\* load-more appends the other 5 and leaves hasMore false.
AllLoadedInOrder ==
    /\ Len(jobs) = Cardinality(coll)
    /\ Range(jobs) = coll
    /\ \A i \in 1..(Len(jobs) - 1) : jobs[i] > jobs[i + 1]

C5_SequentialPagingCompletes ==
    /\ <>[](Idle /\ ~hasMore /\ ~loading /\ ~loadingMore /\ AllLoadedInOrder)
    /\ [][Cardinality(coll) = 30 =>
             /\ AppliedPage("init") =>
                   Len(jobs') = 25 /\ hasMore' /\ IsPageOne(jobs', coll)
             /\ (AppliedPage("more") /\ Len(jobs) = 25) =>
                   /\ Len(jobs') = 30 /\ ~hasMore'
                   /\ Len(req["more"].docs) = 5
                   /\ SubSeq(jobs', 26, 30) = req["more"].docs]_vars

\* C5 witness: a collection of 30 records is loaded completely.
C5_ThirtyLoaded ==
    /\ Idle /\ Cardinality(coll) = 30
    /\ ~hasMore /\ Len(jobs) = 30 /\ AllLoadedInOrder

\* C6: when a reset completes, the loaded list is the page it fetched, whatever
\* was loaded before, hasMore tells whether that page was full and the cursor is
\* its last record (none for an empty page); over a collection that has not
\* changed the page is page one of the collection, so the result of a reset is
\* the same every time.
C6_ResetReplaces ==
    [][\A t \in Tasks :
          (AppliedPage(t) /\ req[t].mode = "reset" /\ mounted)
              => /\ jobs' = req[t].docs
                 /\ hasMore' = (Len(jobs') = PAGE_SIZE)
                 /\ inserts = 0 =>
                       /\ IsPageOne(jobs', coll)
                       /\ lastDocRef' = IF jobs' = <<>> THEN 0 ELSE jobs'[Len(jobs')]]_vars

\* C6 witness: a refresh has completed over a collection of more than one page
\* and left exactly page one.
C6_RefreshedToPageOne ==
    /\ mounted /\ Idle /\ inserts = 0
    /\ snack = "Updated."
    /\ Cardinality(coll) > PAGE_SIZE
    /\ IsPageOne(jobs, coll)
    /\ hasMore /\ lastDocRef = jobs[PAGE_SIZE]

\* C7: applying a load-more page keeps the loaded list as a prefix of the new
\* list and appends, in page order, exactly the page's records not yet loaded.
C7_LoadMoreAppends ==
    [][\A t \in Tasks :
          (AppliedPage(t) /\ req[t].mode = "more" /\ mounted)
              => /\ Len(jobs') >= Len(jobs)
                 /\ SubSeq(jobs', 1, Len(jobs)) = jobs
                 /\ SubSeq(jobs', Len(jobs) + 1, Len(jobs'))
                      = SelectSeq(req[t].docs, LAMBDA d : d \notin Range(jobs))]_vars

\* C7 witness: a page was appended behind older records although it holds a
\* newer one: the list is not in creationDate order.
C7_AppendedOutOfOrder ==
    /\ mounted
    /\ \E i \in 1..(Len(jobs) - 1) : jobs[i] < jobs[i + 1]

\* --------------------------------------------- properties: the feed engine
\* The loaded jobs the filters other than the radius filter let through.
passingOtherFilters ==
    filtered(jobs, searchText, zipFilter, FALSE, origin, radiusMiles, now)

\* C3: with the radius filter enabled and no origin set the visible feed is
\* empty, whatever the loaded jobs, the search text, the ZIP filter, the radius
\* and the sort mode.
C3_RadiusFailsClosed ==
    (enableRadius /\ origin = NoOrigin) => visibleJobs = <<>>

\* C3 witness: the radius filter is on without an origin while some loaded job
\* passes every other filter.
C3_RadiusOnNoOrigin ==
    /\ enableRadius /\ origin = NoOrigin
    /\ passingOtherFilters # <<>>
    /\ visibleJobs = <<>>

\* The ids of the entries of a list of computed entries, in order.
ids(list) == [i \in 1..Len(list) |-> list[i].job]
\* The position of document d in the loaded list.
loadedAt(d) == CHOOSE i \in 1..Len(jobs) : jobs[i] = d
\* The calendar day of a time.
dayOf(t) == t \div PartsPerDay
\* Document d is active at time t: a standing offer, or without endDate, or
\* its endDate's day is on or after the day of t.
Active(d, t) ==
    \/ JobData(d).standingOffer
    \/ JobData(d).endDate.k # "timestamp"
    \/ dayOf(JobData(d).endDate.v) >= dayOf(t)
NoOtherFilter ==
    Trim(searchText) = <<>> /\ Trim(zipFilter) = <<>> /\ ~enableRadius

C17_TipThenPayThenZero ==
    \A d \in Range(jobs) :
        LET job == JobData(d)
        IN  tipOf(job) = IF job.tip.k = "number" THEN job.tip.v
                         ELSE IF job.pay.k = "number" THEN job.pay.v
                         ELSE 0

\* C17 witness: sorted by highest tip, the job with no tip and pay 15 (resolved
\* 15) stands before the job with tip 0 and pay 15 (resolved 0).
C17_ZeroTipBelowPay ==
    /\ Len(jobs) = 2 /\ sort = "tipHigh"
    /\ JobData(1).tip = Num(0) /\ JobData(1).pay = Num(15)
    /\ JobData(2).tip = Undef /\ JobData(2).pay = Num(15)
    /\ ids(visibleJobs) = <<2, 1>>

\* An entry has a computable distance: its miles is a finite number.
hasDistance(x) == x.miles # NoMiles /\ finite(x.miles)

\* C18: with the radius filter enabled and an origin set, the visible feed
\* holds exactly the jobs passing the other filters whose distance to the
\* origin is a finite number not greater than the radius; every job of it has
\* resolvable coordinates.
C18_RadiusKeepsWithin ==
    (enableRadius /\ origin # NoOrigin)
        => /\ Range(visibleJobs) =
                {x \in Range(passingOtherFilters) :
                    hasDistance(x) /\ x.miles <= radiusMiles * 1000}
           /\ Len(visibleJobs) = Cardinality(Range(visibleJobs))
           /\ \A x \in Range(visibleJobs) : jobCoords(JobData(x.job)) # NoOrigin

\* C18 witness: of two jobs 2.0 and 12.0 miles from the origin, radius 10 and
\* sort by distance leave only the nearer.
C18_TwoAndTwelveMiles ==
    /\ enableRadius /\ origin = Origin1 /\ radiusMiles = 10 /\ sort = "distance"
    /\ Len(passingOtherFilters) = 2
    /\ passingOtherFilters[1].miles = 12022 /\ passingOtherFilters[2].miles = 2003
    /\ ids(visibleJobs) = <<2>>

\* C19: in sort mode distance, of two jobs of the visible feed the earlier has
\* the smaller or equal distance when both have a computable distance, a job
\* without one never stands before a job with one, and two jobs without one
\* stand in their loaded order.
C19_DistanceAscendingUnknownLast ==
    sort = "distance" =>
        \A i, j \in 1..Len(visibleJobs) :
            i < j =>
                LET a == visibleJobs[i]
                    b == visibleJobs[j]
                IN  /\ hasDistance(a) /\ hasDistance(b) => a.miles <= b.miles
                    /\ ~(~hasDistance(a) /\ hasDistance(b))
                    /\ ~hasDistance(a) /\ ~hasDistance(b)
                          => loadedAt(a.job) < loadedAt(b.job)

\* C20: in sort mode tipHigh (tipLow) the visible feed is in descending
\* (ascending) order of resolved tip, and jobs of equal resolved tip stand in
\* their loaded order.
C20_TipOrderStable ==
    sort \in {"tipHigh", "tipLow"} =>
        \A i, j \in 1..Len(visibleJobs) :
            i < j =>
                LET ta == tipOf(JobData(visibleJobs[i].job))
                    tb == tipOf(JobData(visibleJobs[j].job))
                IN  /\ sort = "tipHigh" => ta >= tb
                    /\ sort = "tipLow" => ta <= tb
                    /\ ta = tb => loadedAt(visibleJobs[i].job) < loadedAt(visibleJobs[j].job)

\* C20 witness: two different jobs of equal resolved tip are shown, sorted by
\* lowest tip, in their loaded order.
C20_EqualTipsKeepOrder ==
    /\ sort = "tipLow"
    /\ Len(visibleJobs) = 2
    /\ tipOf(JobData(1)) = tipOf(JobData(2))
    /\ JobData(1) # JobData(2)
    /\ ids(visibleJobs) = <<1, 2>>

\* C21: the visible list is a function of the loaded jobs (and their
\* contents), the origin, the search text, the ZIP filter, the radius setting
\* and the sort mode alone: a step that leaves all of these unchanged leaves
\* the visible list unchanged, whatever else it changes (the clock included).
C21_FeedIsPureFunction ==
    [][UNCHANGED <<jobs, feedData, origin, searchText, zipFilter, radiusMiles,
                   enableRadius, sort>>
          => visibleJobs' = visibleJobs]_vars

\* ------------------------------------ properties: the details and my-jobs screens
\* The jobs whose tip text is on screen.
Listed == {myjobs.jobs[i] : i \in 1..Len(myjobs.jobs)}
OnScreen ==
    (IF DetailsShown THEN {details.job} ELSE {})
    \cup (IF route = "myjobs" /\ ~myjobs.loading
          THEN {[userId |-> j.userId, tip |-> j.tip, pay |-> j.pay] : j \in Listed}
          ELSE {})
\* The record gives no amount: neither tip nor pay is a number, or the tip is a
\* number that is not finite.
NoAmount(job) ==
    \/ ~IsNumber(job.tip) /\ ~IsNumber(job.pay)
    \/ IsNumber(job.tip) /\ ~finite(job.tip.v)

\* C22: on the feed, the details page and the my-jobs list, a record whose tip
\* is absent (with no legacy pay to fall back on) or non-finite shows the empty
\* tip text, never a zero amount.
C22_NoTipShowsEmptyText ==
    \A job \in OnScreen :
        NoAmount(job) => /\ feedTipText(job) = <<>>
                         /\ detailsTipText(job) = <<>>
                         /\ myJobsTipText(job) = <<>>

\* C23: delete is offered only to the owner. The details page offers it only
\* while a user is signed in and the loaded job carries (in the page and in the
\* store) that user's id; every job listed by my-jobs belongs to the signed-in
\* user; and every deleteDoc was issued by a signed-in user for a job the store
\* records as that user's (or, the job being deleted already, as nobody's).
C23_DeleteOnlyByOwner ==
    /\ DeleteOffered => /\ user # 0
                        /\ details.job.userId = user
                        /\ ownerOf(details.id) \in {0, user}
    /\ (route = "myjobs" /\ ~myjobs.loading)
          => \A j \in Listed : j.userId = user /\ ownerOf(j.id) \in {0, user}
    /\ deletes # NoDelete => deletes.by # 0 /\ deletes.owner \in {0, deletes.by}
\* C23 witness: both users own a job; the first user's delete, issued from the
\* details page since left, and the second user's, issued from the my-jobs
\* list, are in flight.
C23_DeletedFromBothScreens ==
    /\ deletes.by = 2 /\ deletes.owner = 2
    /\ \E c1, c2 \in pending : /\ c1.page = "gone" /\ c2.page = "myjobs"
                                /\ ownerOf(c1.id) = 1 /\ ownerOf(c2.id) = 2


\* ------------------------------------ properties: the distance calculator
\* C25: for finite coordinate pairs a (the origin) and b (the job's), the
\* distance from a point to itself is 0, the distance is the same in both
\* directions, the value handed to Math.asin lies in [0, 1], and the distance
\* shown for the job is that finite value.
C25_ZeroSymmetricClamped ==
    LET a == origin
        b == jobCoords(JobData(1))
    IN  /\ haversineMiles(a, a) = 0 /\ haversineFormula(a, a) = 0
        /\ haversineMiles(b, b) = 0 /\ haversineFormula(b, b) = 0
        /\ haversineMiles(a, b) = haversineMiles(b, a)
        /\ haversineFormula(a, b) = haversineFormula(b, a)
        /\ asinArgument(a, b) \in 0..Scale /\ asinArgument(b, a) \in 0..Scale
        /\ finite(haversineMiles(a, b)) /\ haversineMiles(a, b) >= 0
        /\ computed(jobs, origin)[1].miles = haversineMiles(a, b)
\* C25 witness: two different points for which the square root of h exceeds 1
\* before Math.min is applied, with the job listed at its distance.
C25_ClampNeeded ==
    LET a == origin
        b == jobCoords(JobData(1))
    IN  /\ a # b
        /\ sqrt(haversineH(a, b)) > Scale
        /\ sort = "distance"
        /\ haversineMiles(a, b) > 0

\* ------------------------------------------ properties: the post-job form
\* The document written last was submitted while the profile status was ok and
\* satisfies the validation rules as of the time of submission.
WrittenWasValidated ==
    posted # NoPost =>
        LET d == posted.doc
        IN  /\ posted.status = "ok"
            /\ d.title # <<>> /\ Trim(d.title) = d.title
            /\ d.address # <<>> /\ Trim(d.address) = d.address
            /\ d.zip # <<>> /\ Trim(d.zip) = d.zip
            /\ IsNumber(d.tip) /\ d.tip.v # NaN /\ d.tip.v > 0
            /\ \/ d.standingOffer /\ d.endDate = NoTs
               \/ /\ ~d.standingOffer /\ d.endDate.k = "timestamp"
                  /\ dayOf(d.endDate.v) >= dayOf(posted.submitted)
\* Nothing is written while the profile is loading, missing or incomplete, or
\* while a validation rule fails: a submission is started only from a shown
\* form that validates, and only a started submission writes.
NoWriteUnlessValid ==
    [][/\ (call = NoCall /\ call' # NoCall)
             => form.profileStatus = "ok" /\ validate(form, now) = ""
       /\ posted' # posted => call.stage = "addDoc"]_vars

\* C29: every job document the form wrote was submitted with profile status
\* ok, has a non-empty trimmed title, address and zip, a tip above 0, and is a
\* standing offer without endDate or ends on or after the submission day; and
\* it is active on the day it is created.
C29_WrittenJobValidAndActive ==
    /\ WrittenWasValidated
    /\ posted # NoPost => isActive(posted.doc, posted.creationDate)

\* ---------------------------------------- properties: account deletion
\* Position of the first settled await of step s in the trail (0 if none).
at(s, okay) ==
    LET hits == {i \in 1..Len(trail) : trail[i].step = s /\ trail[i].ok = okay}
    IN  IF hits = {} THEN 0 ELSE CHOOSE i \in hits : \A j \in hits : i <= j
Deleting == {"commit", "deleteDoc", "deleteUser"}
\* Nothing is deleted before re-authentication succeeded; jobs are deleted
\* before the profile document and the auth user after both.
DeletionInOrder ==
    /\ \A i \in 1..Len(trail) :
          trail[i].step \in Deleting => trail[1] = [step |-> "reauthenticate", ok |-> TRUE]
    /\ \A i, j \in 1..Len(trail) :
          /\ (trail[i].step = "commit" /\ trail[j].step = "deleteDoc") => i < j
          /\ (trail[i].step \in {"commit", "deleteDoc"} /\ trail[j].step = "deleteUser")
                => i < j
    /\ at("deleteUser", TRUE) # 0 => at("deleteDoc", TRUE) # 0
\* A rejected await of a step in S is the last one of its call: no later step
\* is performed.
StopsAtFailureOf(S) ==
    \A i \in 1..Len(trail) :
        (trail[i].step \in S /\ ~trail[i].ok) => i = Len(trail) /\ deletion = NoDeletion
\* When an await of a step in S is rejected, the page that made the call, if
\* still mounted, shows the error with the busy flag cleared.
FailureShownFor(S) ==
    (/\ deletion.step \in S /\ deletion.mounted
     /\ Len(trail') = Len(trail) + 1 /\ ~trail'[Len(trail')].ok)
        => account'.deleteError # "" /\ ~account'.deleteBusy
\* Before the call is started nothing of the account is deleted: without the
\* user's confirmation no await is made.
NothingWithoutConfirm ==
    (deletion = NoDeletion /\ deletion' # NoDeletion)
        => /\ deletion'.step = "reauthenticate" /\ trail' = <<>>
           /\ UNCHANGED <<jobDocs, profiles, user>>

\* C30: account deletion runs in a fixed order and stops at the first failure:
\* nothing is deleted unless the user confirmed and re-authentication
\* succeeded, jobs go before the profile document and the auth user after both,
\* and after a rejected step no later step is performed, the error is shown and
\* the busy flag is cleared.
AllSteps == {DeletionSteps[i] : i \in 1..Len(DeletionSteps)}
C30_OrderedStopsAtFirstFailure ==
    /\ []DeletionInOrder
    /\ []StopsAtFailureOf(AllSteps)
    /\ [][FailureShownFor(AllSteps) /\ NothingWithoutConfirm]_vars


\* ------------------------------------------------ properties: the geocoder
GeoKey == Trim(gcall.zip)

\* C8: a call whose trimmed ZIP had an item in the cache returns the cached
\* coordinate and issues no network request; a request is in flight only for a
\* ZIP that has no item, so once a resolve has written the item, later
\* resolves of ZIPs with that trimmed value issue none.
C8_CacheHitNoNetwork ==
    /\ (gcall.pc = "done" /\ gcall.hit) =>
          /\ ~gcall.fetched /\ ~gcall.threw
          /\ gcall.result.k = "latlng"
          /\ stringify(gcall.result) = storage[GeoKey]
    /\ gcall.fetched => ~gcall.hit
    /\ gcall.pc = "fetching" => storage[GeoKey] = NoItem
    /\ (gcall.pc = "done" /\ gcall.wrote = "ok") =>
          storage[GeoKey] = stringify(gcall.result)

\* C8 witness: a ZIP typed with a blank was answered from the item an earlier
\* resolve wrote under its trimmed value.
C8_WarmHit ==
    /\ gcall.pc = "done" /\ gcall.hit /\ ~gcall.fetched
    /\ gcall.zip # GeoKey
    /\ gcall.result = LatLng(40750, 0 - 73997)

\* C9: a non-success response, an empty result set, or a first result whose
\* latitude or longitude is not a finite number makes geocodeZip return null
\* without throwing.
NotFound(ans) ==
    \/ ans.kind \in {"notok", "empty"}
    \/ /\ ans.kind = "result"
       /\ ~isFinite(ToNumber(ans.lat)) \/ ~isFinite(ToNumber(ans.lon))

C9_NotFoundIsNull ==
    (gcall.pc = "done" /\ gcall.fetched /\ NotFound(gcall.ans)) =>
        ~gcall.threw /\ gcall.result = NoOrigin

\* C9 witness: the service answered with a finite latitude and a longitude that
\* is not a number, and the call returned null.
C9_NonFiniteLongitude ==
    /\ gcall.pc = "done" /\ gcall.fetched
    /\ gcall.ans.kind = "result"
    /\ isFinite(ToNumber(gcall.ans.lat)) /\ ~isFinite(ToNumber(gcall.ans.lon))
    /\ ~gcall.threw /\ gcall.result = NoOrigin

\* C10: when the service returns a valid coordinate and the storage write
\* raises, geocodeZip still returns that coordinate.
C10_WriteFailureSwallowed ==
    (gcall.pc = "done" /\ gcall.wrote = "failed") =>
        /\ ~gcall.threw
        /\ gcall.result = LatLng(ToNumber(gcall.ans.lat).v, ToNumber(gcall.ans.lon).v)

\* C10 witness: a call whose storage write raised returned the coordinate, and
\* the cache still has no item for the ZIP.
C10_WriteFailed ==
    /\ gcall.pc = "done" /\ gcall.wrote = "failed"
    /\ gcall.result.k = "latlng"
    /\ storage[GeoKey] = NoItem

\* --------------------------------------- properties: the origin resolver
\* C11: a blank ZIP (empty or whitespace only) never causes a network request:
\* a geocodeZip call with a blank ZIP has ended with null, having read no cached
\* item and made no request; and "Use ZIP" pressed over a blank "Your ZIP" field
\* shows "Enter a ZIP first." and leaves the geocoder, the storage, the busy
\* flag, the pending acquisitions and the origin as they were.
C11_BlankZipNoRequest ==
    /\ [](gcall.pc # "idle" /\ Trim(gcall.zip) = <<>>
            => /\ gcall.pc = "done"
               /\ gcall.result = NoOrigin
               /\ ~gcall.fetched /\ ~gcall.hit /\ ~gcall.threw)
    /\ [][(useZipLocation /\ Trim(originZip) = <<>>)
            => /\ snack' = "Enter a ZIP first."
               /\ UNCHANGED <<gcall, storage, originBusy, acq, origin, originSource>>]_vars

\* C11 witness: "Use ZIP" was pressed over a field holding one blank, and
\* geocodeZip was called with a ZIP of one blank.
C11_BlankPressed ==
    /\ originZip = <<" ">>
    /\ snack = "Enter a ZIP first."
    /\ ~originBusy
    /\ gcall.pc = "done" /\ gcall.zip = <<" ">>

SuccessMessages == {"Using your location.", "Using ZIP location."}

\* C12: an acquisition that fails (the geolocation promise rejects: failure,
\* denial, timeout, no support; the geocoder returns null or raises) leaves
\* origin and originSource as they were and shows a message that is not a
\* success message; origin or originSource change only in a step that ends an
\* acquisition with a success message and a non-null origin.
C12_FailureKeepsOrigin ==
    [][/\ \A out \in GeolocationOutcomes :
            (useBrowserLocationResume(out) /\ ~out.ok)
                => /\ UNCHANGED <<origin, originSource>>
                   /\ snack' # "" /\ snack' \notin SuccessMessages
       /\ (useZipLocationResume /\ (gcall.threw \/ gcall.result = NoOrigin))
                => /\ UNCHANGED <<origin, originSource>>
                   /\ snack' # "" /\ snack' \notin SuccessMessages
       /\ (origin' # origin \/ originSource' # originSource)
                => /\ \E k \in Strategies : InFlight(k) /\ acq'[k] = 0
                   /\ snack' \in SuccessMessages
                   /\ origin' # NoOrigin /\ originSource' # "null"]_vars

\* C12 witness: after the device's position was acquired, a ZIP lookup found
\* nothing; the origin is still the device's.
C12_ZipNotFoundAfterGeo ==
    /\ snack = "Could not find that ZIP."
    /\ originSource = "geo" /\ origin # NoOrigin
    /\ ~originBusy

\* C13: at most one acquisition is in flight at a time, and origin and
\* originSource are those of the successful acquisition that was invoked last
\* (null while none succeeded).
C13_OneAtATimeLastWins ==
    /\ Cardinality({k \in Strategies : InFlight(k)}) <= 1
    /\ originBusy = (\E k \in Strategies : InFlight(k))
    /\ origin = lastOk.coords
    /\ originSource = lastOk.source

\* C13 witness: the geocoder has resolved and cached the ZIP of the field, and
\* the device's position, acquired last, is the origin.
C13_GeoAfterZip ==
    /\ origin = LatLng(40711, 0 - 74011) /\ originSource = "geo"
    /\ snack = "Using your location."
    /\ gcall.pc = "done" /\ gcall.wrote = "ok" /\ Trim(gcall.zip) = Trim(originZip)
    /\ ~originBusy

\* ------------------------------------ properties: the coordinate extractor
\* The two fields of shape i of a record, in the precedence order: 1 nested
\* latitude/longitude, 2 nested lat/lng, 3 top-level latitude/longitude,
\* 4 top-level lat/lng.
Shapes == 1..4
shapeLat(job, i) ==
    IF i = 1 THEN job.location.latitude ELSE IF i = 2 THEN job.location.lat
    ELSE IF i = 3 THEN job.latitude ELSE job.lat
shapeLng(job, i) ==
    IF i = 1 THEN job.location.longitude ELSE IF i = 2 THEN job.location.lng
    ELSE IF i = 3 THEN job.longitude ELSE job.lng
\* Shape i is present: both its fields hold a number.
present(job, i) ==
    /\ i \in {1, 2} => job.location.k = "object"
    /\ shapeLat(job, i).k = "number" /\ shapeLng(job, i).k = "number"
\* ... and valid: both numbers are finite.
valid(job, i) ==
    present(job, i) /\ finite(shapeLat(job, i).v) /\ finite(shapeLng(job, i).v)
earliest(S) == CHOOSE i \in S : \A j \in S : i <= j

\* C14: for every record whose present shapes are all valid, jobCoords is the
\* pair of the earliest present shape in the order nested latitude/longitude,
\* nested lat/lng, top-level latitude/longitude, top-level lat/lng, and it is
\* null when no shape is present.
C14_EarliestShapeWins ==
    \A d \in DOMAIN feedData :
        LET job == feedData[d]
            P == {i \in Shapes : present(job, i)}
        IN  (\A i \in P : valid(job, i))
                => jobCoords(job) =
                     IF P = {} THEN NoOrigin
                     ELSE LatLng(shapeLat(job, earliest(P)).v,
                                 shapeLng(job, earliest(P)).v)

\* C14 witness: all four shapes are present and valid, and the distance shown
\* for the job is that of its nested latitude/longitude pair.
C14_AllFourShapes ==
    /\ \A i \in Shapes : valid(feedData[1], i)
    /\ sort = "distance"
    /\ Len(visibleJobs) = 1
    /\ visibleJobs[1].miles = haversineMiles(origin, LatLng(40001, 0 - 74001))

\* C15: a non-null result of jobCoords has a finite lat and a finite lng, and
\* it is the pair of the earliest valid shape (a shape holding NaN or an
\* infinity is passed over); the result is null when no shape is valid.
C15_ResultIsFinite ==
    \A d \in DOMAIN feedData :
        LET job == feedData[d]
            V == {i \in Shapes : valid(job, i)}
            c == jobCoords(job)
        IN  /\ c # NoOrigin => finite(c.lat) /\ finite(c.lng)
            /\ c = IF V = {} THEN NoOrigin
                   ELSE LatLng(shapeLat(job, earliest(V)).v, shapeLng(job, earliest(V)).v)

====
